---- MODULE Spec2Model ----
(***************************************************************************)
(* Model of terreno.nvim.                                                  *)
(*  - Spec: the graph held by the visualizer client (nodes, edges), the    *)
(*    graph push handler (handleGraphData with the no-edge grid layout)    *)
(*    and the two expansion merges of useGraphInteractions                 *)
(*    (handleExpandFile, handleExpandCalls).                               *)
(*  - SpecHover: the client with symbol hovers (handleSymbolHover,         *)
(*    styledNodes, styledEdges).                                           *)
(*  - SpecServer, SpecServerFair: the pending requests of server.js and    *)
(*    the endpoints that await them.                                       *)
(*  - SpecEstimate: estimateNodeSize of utils/layout as a function.        *)
(*  - SpecSnippet: the code:request handler of server.js with its symbols  *)
(*    lookup (requestSymbols, symbolsCache).                               *)
(*  - SpecSetup: setup of lua/terreno.lua.                                 *)
(*  - SpecScan: findFreeY of handleExpandCalls as a function.              *)
(*  - SpecBuild: build_file_graph of lua/terreno/lsp.lua.                  *)
(*  - SpecExpand: expand_node of lua/terreno/lsp.lua with the merge of its *)
(*    result by the client (handleExpandCalls).                            *)
(*  - SpecGraph: the graph the server stores and broadcasts (/api/graph,   *)
(*    graph:update, connection).                                           *)
(*  - SpecCommand: the :Terreno command of plugin/terreno.lua              *)
(*    (with_server).                                                       *)
(*  - SpecCalls, SpecCallsFair: build_call_graph of lua/terreno/lsp.lua    *)
(*    under send_calls.                                                    *)
(*  - SpecImports: expand_file_imports of lua/terreno/lsp.lua.             *)
(*  - SpecOverlay: the symbol hovers of the client told apart, with the    *)
(*    references response of each.                                         *)
(*  - SpecGrid: getGridLayout of utils/layout as a function.               *)
(***************************************************************************)
EXTENDS Integers, Sequences, FiniteSets, TLC

VARIABLES nodes, edges, error

vars == <<nodes, edges, error>>

\* useGraphInteractions: the highlighted-files overlay and the number of
\* fetchReferences calls whose response has not arrived
VARIABLES highlightedFiles, refsInFlight

hoverVars == <<highlightedFiles, refsInFlight>>

\* server.js: neovimSocket (registered or null), the pendingRequests map,
\* the requests the server was given (index = request id: its send, its
\* promise, its timer, the place of its handler, its answer), symbolsCache,
\* and whether the process has been terminated
VARIABLES neovimSocket, pendingRequests, requests, symbolsCache, crashed

serverVars == <<neovimSocket, pendingRequests, requests, symbolsCache, crashed>>

\* server.js after its module body ran
ServerInit ==
    /\ neovimSocket = FALSE
    /\ pendingRequests = {}
    /\ requests = <<>>
    /\ symbolsCache = {}
    /\ crashed = FALSE

\* utils/layout estimateNodeSize: the argument of the last call (none or
\* one node) and what it returned (none or one size)
VARIABLES estArgs, estResult

estVars == <<estArgs, estResult>>

EstimateInit ==
    /\ estArgs = <<>>
    /\ estResult = <<>>

\* server.js, socket "code:request": the calls of the handler (index = call:
\* its arguments, where it stands, the symbols request it awaits, its answer)
VARIABLES codeRequests

snippetVars == <<codeRequests>>

SnippetInit == codeRequests = <<>>

\* lua/terreno.lua: the table default_config, M.config, M.server_name, the
\* server the socket was registered with (none or one), and the argument of
\* the last setup call (none or one)
VARIABLES default_config, config, server_name, registeredWith, setupOpts

setupVars == <<default_config, config, server_name, registeredWith, setupOpts>>

\* findFreeY of handleExpandCalls: the arguments of the last call (none
\* or one) and what it returned (none or one)
VARIABLES scanArgs, scanResult

scanVars == <<scanArgs, scanResult>>

ScanInit ==
    /\ scanArgs = <<>>
    /\ scanResult = <<>>

\* lsp.lua build_file_graph: the locals of the running call (all_files, the
\* files whose symbol lookup has not called back, nodes, edges) and the
\* graph given to the callback (none or one)
VARIABLES all_files, awaiting, graphNodes, graphEdges, fileGraph

buildVars == <<all_files, awaiting, graphNodes, graphEdges, fileGraph>>

BuildInit ==
    /\ all_files = <<>>
    /\ awaiting = {}
    /\ graphNodes = <<>>
    /\ graphEdges = <<>>
    /\ fileGraph = <<>>

\* lsp.lua expand_node and its way to the client: the expansion result the
\* editor has posted and the client has not merged yet (none or one), and
\* the last result the client merged (none or one)
VARIABLES expandInFlight, expandMerged

expandVars == <<expandInFlight, expandMerged>>

ExpandInit ==
    /\ expandInFlight = <<>>
    /\ expandMerged = <<>>

\* server.js: neovimCwd, latestGraph (none or one graph), the graph of the
\* last graph:data broadcast (none or one), and the connected browsers with
\* the graph:data each received last (none or one)
VARIABLES neovimCwd, latestGraph, lastBroadcast, clientGraphs

graphVars == <<neovimCwd, latestGraph, lastBroadcast, clientGraphs>>

GraphInit ==
    /\ neovimCwd = "null"
    /\ latestGraph = <<>>
    /\ lastBroadcast = <<>>
    /\ clientGraphs = <<>>

\* plugin/terreno.lua: the :Terreno commands issued in this editor session,
\* each with the callback it waits for (pc) and what happened for it so far
\* (trace); vim.g.terreno_browser_opened; the calls of open_browser
VARIABLES commands, terreno_browser_opened, browserOpens

commandVars == <<commands, terreno_browser_opened, browserOpens>>

CommandInit ==
    /\ commands = <<>>
    /\ terreno_browser_opened = FALSE
    /\ browserOpens = 0

\* build_call_graph of lua/terreno/lsp.lua, one call of it: its locals
\* nodes, edges, visited and pending (callNodes, callEdges, visited,
\* pending), its depth, the answers the language server gives (callsOf),
\* the outgoing-calls requests not answered yet (outstanding) and all that
\* were made (requested), the deferred check (deferred) and the calls of
\* the completion callback so far (callbacks), with the graphs send_calls
\* sent for them (graphsSent)
VARIABLES callNodes, callEdges, visited, pending, depth, callsOf, outstanding,
          requested, deferred, callbacks, graphsSent

callsVars == <<callNodes, callEdges, visited, pending, depth, callsOf, outstanding,
               requested, deferred, callbacks, graphsSent>>

CallsInit ==
    /\ callNodes = <<>>
    /\ callEdges = <<>>
    /\ visited = {}
    /\ pending = 0
    /\ depth = 0
    /\ callsOf = <<>>
    /\ outstanding = {}
    /\ requested = <<>>
    /\ deferred = "none"
    /\ callbacks = 0
    /\ graphsSent = 0

\* expand_file_imports of lua/terreno/lsp.lua for one request id: where the
\* call is (importsPc), whether an LSP client is attached to the buffer and
\* how many identifiers its first lines hold (importsInput), the locals
\* pending, started and found_files of follow_imports_via_lsp
\* (definitionsPending, followStarted, found_files), the get_file_symbols calls
\* that have not called back yet (lookups), the locals pending and nodes of
\* the callback of expand_file_imports (lookupsPending, importNodes), and
\* the send_expand_result calls made (expandResults)
VARIABLES importsPc, importsInput, definitionsPending, followStarted, found_files, lookups,
          lookupsPending, importNodes, expandResults

importsVars == <<importsPc, importsInput, definitionsPending, followStarted, found_files, lookups,
                 lookupsPending, importNodes, expandResults>>

ImportsInit ==
    /\ importsPc = "idle"
    /\ importsInput = <<>>
    /\ definitionsPending = 0
    /\ followStarted = FALSE
    /\ found_files = <<>>
    /\ lookups = {}
    /\ lookupsPending = 0
    /\ importNodes = <<>>
    /\ expandResults = <<>>

\* the symbol hovers of the visualizer told apart: the hover the pointer is
\* on (pointer, 0: on no symbol), the hovers so far (hoverCount), the
\* hovers whose fetchReferences has not settled (hoverRequests), and the
\* hover whose response filled the overlay (overlayOf, 0: cleared)
VARIABLES pointer, hoverCount, hoverRequests, overlayOf

overlayVars == <<pointer, hoverCount, hoverRequests, overlayOf>>

OverlayInit ==
    /\ pointer = 0
    /\ hoverCount = 0
    /\ hoverRequests = {}
    /\ overlayOf = 0

\* getGridLayout of utils/layout as a function: the node list of the last
\* call (none or one) and what it returned
VARIABLES gridArgs, gridResult

gridVars == <<gridArgs, gridResult>>

GridInit ==
    /\ gridArgs = <<>>
    /\ gridResult = <<>>

\* every variable of the module
allVars == <<vars, hoverVars, serverVars, estVars, snippetVars, setupVars, scanVars, buildVars, expandVars, graphVars, commandVars, callsVars, importsVars, overlayVars, gridVars>>

\* what the handlers of the client leave alone
notClient == <<serverVars, estVars, snippetVars, setupVars, scanVars, buildVars, expandVars, graphVars, commandVars, callsVars, importsVars, overlayVars, gridVars>>

\* what the handlers of the server leave alone
notServer == <<vars, hoverVars, estVars, snippetVars, setupVars, scanVars, buildVars, expandVars, graphVars, commandVars, callsVars, importsVars, overlayVars, gridVars>>

\* what the code:request handler leaves alone
notSnippet == <<vars, hoverVars, estVars, setupVars, scanVars, buildVars, expandVars, graphVars, commandVars, callsVars, importsVars, overlayVars, gridVars>>

\* what the editor plugin leaves alone
notPlugin == <<vars, hoverVars, serverVars, estVars, snippetVars, scanVars, buildVars, expandVars, graphVars, commandVars, callsVars, importsVars, overlayVars, gridVars>>

\* what findFreeY leaves alone
notScan == <<vars, hoverVars, serverVars, estVars, snippetVars, setupVars, buildVars, expandVars, graphVars, commandVars, callsVars, importsVars, overlayVars, gridVars>>

\* what build_file_graph leaves alone
notBuild == <<vars, hoverVars, serverVars, estVars, snippetVars, setupVars, scanVars, expandVars, graphVars, commandVars, callsVars, importsVars, overlayVars, gridVars>>

\* what expand_node and the merge of its result leave alone
notExpand == <<hoverVars, serverVars, estVars, snippetVars, setupVars, scanVars, buildVars, graphVars, commandVars, callsVars, importsVars, overlayVars, gridVars>>

\* what the graph handlers of the server leave alone, neovimSocket aside
notGraph == <<vars, hoverVars, estVars, snippetVars, setupVars, scanVars, buildVars, expandVars, commandVars, callsVars, importsVars, overlayVars, gridVars>>

\* what estimateNodeSize leaves alone
notEstimate == <<vars, hoverVars, serverVars, snippetVars, setupVars, scanVars, buildVars, expandVars, graphVars, commandVars, callsVars, importsVars, overlayVars, gridVars>>

\* what the :Terreno command leaves alone, M.server_name aside
notCommand == <<vars, hoverVars, serverVars, estVars, snippetVars, scanVars, buildVars, expandVars, graphVars, callsVars, importsVars, overlayVars, gridVars>>

\* what build_call_graph leaves alone
notCalls == <<vars, hoverVars, serverVars, estVars, snippetVars, setupVars, scanVars, buildVars, expandVars, graphVars, commandVars, importsVars, overlayVars, gridVars>>

\* what expand_file_imports leaves alone
notImports == <<vars, hoverVars, serverVars, estVars, snippetVars, setupVars, scanVars, buildVars, expandVars, graphVars, commandVars, callsVars, overlayVars, gridVars>>

\* what the hover handlers leave alone, the client's state aside
notOverlay == <<serverVars, estVars, snippetVars, setupVars, scanVars, buildVars, expandVars, graphVars, commandVars, callsVars, importsVars, gridVars>>

\* what getGridLayout leaves alone
notGrid == <<vars, hoverVars, serverVars, estVars, snippetVars, setupVars, scanVars, buildVars, expandVars, graphVars, commandVars, callsVars, importsVars, overlayVars>>

\* local default_config = {server_url = "http://localhost", port = 3000}
DefaultConfig == [server_url |-> "http://localhost", port |-> 3000]

\* lua/terreno.lua after the module body ran: M.config = default_config,
\* M.server_name = nil
SetupInit ==
    /\ default_config = DefaultConfig
    /\ config = DefaultConfig
    /\ server_name = "nil"
    /\ registeredWith = <<>>
    /\ setupOpts = <<>>

----------------------------------------------------------------------------
(* Bounds of the model *)

\* longest node list a merge or a push may produce
MaxNodes == 3
\* longest edge list a merge may produce
MaxEdges == 2
\* most references requests in flight at once
MaxRefs == 1
\* most requests the server is given in one run
MaxRequests == 2
\* longest symbol list of a node given to estimateNodeSize
MaxEstSymbols == 3
\* most code:request calls in one run
MaxCodeRequests == 2
\* longest list of imported files the import scan returns
MaxImports == 2
\* longest list of outgoing calls the call hierarchy returns
MaxCalls == 2
\* most browsers connected at once
MaxClients == 2
\* :Terreno commands of one editor session
MaxCommands == 2
\* largest depth given to build_call_graph
MaxDepth == 2
\* symbol hovers of one run
MaxHovers == 2
----------------------------------------------------------------------------
(* Values *)

Min(a, b) == IF a < b THEN a ELSE b
Max(a, b) == IF a > b THEN a ELSE b
Abs(a) == IF a < 0 THEN 0 - a ELSE a

\* node ids are free-form strings (file paths, path:line): the model uses
\* "a", "b" and "a-a", which contains the separator of edgeKey
\* the id of a fragment node that carries no id field (JS undefined)
NoId == "undefined"
\* a node type that is absent from the fragment (JS undefined)
NoType == ""

SymMain == [name |-> "main", kind |-> "Function"]
SymGraph == [name |-> "GraphInteractionController", kind |-> "Class"]

\* the data payloads of the model: a file with two symbols of two kinds (one
\* name long enough to widen the node), a file without symbols, a file with
\* one symbol, and a legacy symbol node
DataFile == [filename |-> "app.js", symbols |-> <<SymMain, SymGraph>>, label |-> "", isExpanded |-> FALSE]
DataEmptyFile == [filename |-> "models.py", symbols |-> <<>>, label |-> "", isExpanded |-> FALSE]
DataOneSym == [filename |-> "util.js", symbols |-> <<SymMain>>, label |-> "", isExpanded |-> FALSE]
DataSymbol == [filename |-> "", symbols |-> <<>>, label |-> "main", isExpanded |-> FALSE]

\* nodes as the server sends them: no position yet
FragA == [id |-> "a", type |-> "file", data |-> DataOneSym]
FragB == [id |-> "b", type |-> "file", data |-> DataEmptyFile]
FragSym == [id |-> "a-a", type |-> NoType, data |-> DataSymbol]
\* a malformed node: the id field is missing
FragNoId == [id |-> NoId, type |-> "file", data |-> DataEmptyFile]

\* the node lists of the expansion results of the model: empty, one node,
\* two nodes, two nodes of different heights, a malformed node before a
\* well-formed one, the same id twice, and a list naming a node of the push
FragNodeLists ==
    {<<>>, <<FragB>>, <<FragSym>>, <<FragB, FragSym>>, <<FragA, FragSym>>,
     <<FragNoId, FragSym>>, <<FragSym, FragSym>>, <<FragA>>}

\* nodes of a graph push: both ids come with another payload than in the
\* expansion results
PushA == [id |-> "a", type |-> NoType, data |-> DataFile]
PushB == [id |-> "b", type |-> NoType, data |-> DataOneSym]

\* a symbol node of a push: its type is given
PushSym == [id |-> "a-a", type |-> "symbol", data |-> DataSymbol]

\* graph pushes of the model: nodes with pairwise distinct ids, no edges;
\* one push has a file node and a symbol node
PushSet == {<<PushA>>, <<PushB>>, <<PushA, PushB>>, <<PushA, PushSym>>}

\* the nodes whose expansion the user can request
SourceIds == {"a", "b"}

\* edge as lsp.lua builds it: id = "e_" .. source .. "_" .. target
MkEdge(s, t) == [id |-> "e_" \o s \o "_" \o t, source |-> s, target |-> t]

\* the edge lists of handleExpandCalls fragments: plain pairs, two pairs with
\* the same edgeKey ("a-a-a"), and the same pair twice
FragEdgeLists ==
    {<<>>, <<MkEdge("a", "b")>>, <<MkEdge("a", "a-a")>>, <<MkEdge("a-a", "a")>>,
     <<MkEdge("a", "b"), MkEdge("a", "b")>>}

NodeIds(ns) == {ns[i].id : i \in DOMAIN ns}

\* App.jsx defaultNodes / defaultEdges
defaultNodes ==
    <<[id |-> "waiting", type |-> "file",
       data |-> [filename |-> "Waiting...", symbols |-> <<>>, label |-> "", isExpanded |-> FALSE],
       position |-> [x |-> 250, y |-> 150]]>>

defaultEdges == <<>>

----------------------------------------------------------------------------
(* Geometry: estimateNodeHeight, estimateNodeWidth *)

headerHeight == 50
symbolHeight == 28
groupHeaderHeight == 24
maxSymbolsHeight == 300

estimateNodeHeight(symbols) ==
    LET groupCount == Cardinality({symbols[i].kind : i \in DOMAIN symbols})
        symbolsHeight == Len(symbols) * symbolHeight + groupCount * groupHeaderHeight
    IN headerHeight + Min(symbolsHeight, maxSymbolsHeight) + 16

RECURSIVE longestSymbolFrom(_, _)
longestSymbolFrom(symbols, i) ==
    IF i > Len(symbols) THEN 0
    ELSE Max(Len(symbols[i].name), longestSymbolFrom(symbols, i + 1))

codePreviewBuffer == 300

estimateNodeWidth(node) ==
    LET maxTextLength == Max(Len(node.data.filename), longestSymbolFrom(node.data.symbols, 1))
        baseWidth == Max(280, maxTextLength * 8 + 120)
    IN baseWidth + codePreviewBuffer

----------------------------------------------------------------------------
(* Pieces shared by the two merges of useGraphInteractions *)

\* currentNodes.find((n) => n.id === sourceId): index of the first match,
\* 0 when there is none (JS undefined)
find(currentNodes, sourceId) ==
    IF \E i \in DOMAIN currentNodes : currentNodes[i].id = sourceId
    THEN CHOOSE i \in DOMAIN currentNodes :
            /\ currentNodes[i].id = sourceId
            /\ \A j \in 1..(i - 1) : currentNodes[j].id # sourceId
    ELSE 0

\* sourceNode?.position?.x || 0
sourceXOf(currentNodes, src) == IF src = 0 THEN 0 ELSE currentNodes[src].position.x

\* sourceNode?.position?.y || 0
sourceYOf(currentNodes, src) == IF src = 0 THEN 0 ELSE currentNodes[src].position.y

\* result.nodes.filter((n) => !existingIds.has(n.id))
filterNewNodes(currentNodes, fragNodes) ==
    SelectSeq(fragNodes, LAMBDA n : n.id \notin NodeIds(currentNodes))

horizontalGap == 60

\* the column of the earlier revision of the hook: a fixed offset
targetXOfFixedOffset(currentNodes, src) == sourceXOf(currentNodes, src) + 350

\* sourceX + sourceWidth + horizontalGap, for a source node that exists
targetXOf(currentNodes, src) ==
    sourceXOf(currentNodes, src) + estimateNodeWidth(currentNodes[src]) + horizontalGap

----------------------------------------------------------------------------
(* handleExpandFile: the setNodes and setEdges updaters *)

\* the map without the spread of n.data: the source keeps only the flag
updatedNodesDataLost(currentNodes, sourceId) ==
    [i \in DOMAIN currentNodes |->
        IF currentNodes[i].id = sourceId
        THEN [currentNodes[i] EXCEPT
                !.data = [filename |-> "", symbols |-> <<>>, label |-> "", isExpanded |-> TRUE]]
        ELSE currentNodes[i]]

\* the map left out: no node is flagged
updatedNodesUnflagged(currentNodes, sourceId) == currentNodes

\* currentNodes.map(n => n.id === sourceId ? {...n, data: {...n.data, isExpanded: true}} : n)
updatedNodes(currentNodes, sourceId) ==
    [i \in DOMAIN currentNodes |->
        IF currentNodes[i].id = sourceId
        THEN [currentNodes[i] EXCEPT !.data.isExpanded = TRUE]
        ELSE currentNodes[i]]

fileVerticalGap == 30

\* y of the i-th new node: currentY after i - 1 rounds of
\* currentY += nodeHeight + verticalGap
RECURSIVE currentYAt(_, _, _)
currentYAt(newNodes, sourceY, i) ==
    IF i <= 1 THEN sourceY
    ELSE currentYAt(newNodes, sourceY, i - 1)
         + estimateNodeHeight(newNodes[i - 1].data.symbols) + fileVerticalGap

positionedNodes(newNodes, targetX, sourceY) ==
    [i \in DOMAIN newNodes |->
        [id |-> newNodes[i].id,
         type |-> "file",
         data |-> newNodes[i].data,
         position |-> [x |-> targetX, y |-> currentYAt(newNodes, sourceY, i)]]]

\* the setNodes updater; threw = TRUE when estimateNodeWidth(sourceNode)
\* reads node.data of an undefined sourceNode (TypeError)
expandFileSetNodes(currentNodes, sourceId, resultNodes) ==
    LET src == find(currentNodes, sourceId)
        newNodes == filterNewNodes(currentNodes, resultNodes)
    IN IF newNodes = <<>>
       THEN [threw |-> FALSE, nodes |-> updatedNodes(currentNodes, sourceId)]
       ELSE IF src = 0
       THEN [threw |-> TRUE, nodes |-> currentNodes]
       ELSE [threw |-> FALSE,
             nodes |-> updatedNodes(currentNodes, sourceId)
                       \o positionedNodes(newNodes, targetXOf(currentNodes, src),
                                          sourceYOf(currentNodes, src))]

\* the filter left out: every generated edge is appended
filterFileEdgesKeepAll(currentEdges, newEdges) == newEdges

\* .filter((e) => !currentEdges.some((ce) => ce.source === e.source && ce.target === e.target))
filterFileEdges(currentEdges, newEdges) ==
    SelectSeq(newEdges, LAMBDA e :
        ~ \E i \in DOMAIN currentEdges :
            currentEdges[i].source = e.source /\ currentEdges[i].target = e.target)

\* the setEdges updater: one edge sourceId -> n.id per result node other
\* than the source itself, minus the pairs already stored
expandFileSetEdges(currentEdges, sourceId, resultNodes) ==
    LET others == SelectSeq(resultNodes, LAMBDA n : n.id # sourceId)
        newEdges == [i \in DOMAIN others |-> MkEdge(sourceId, others[i].id)]
    IN currentEdges \o filterFileEdges(currentEdges, newEdges)

\* the then-callback for a result {status: "ok", nodes}: both updaters; when
\* the setNodes updater throws, the render fails and neither list is committed
handleExpandFile(currentNodes, currentEdges, sourceId, resultNodes) ==
    LET r == expandFileSetNodes(currentNodes, sourceId, resultNodes)
    IN IF r.threw
       THEN [threw |-> TRUE, nodes |-> currentNodes, edges |-> currentEdges]
       ELSE [threw |-> FALSE, nodes |-> r.nodes,
             edges |-> expandFileSetEdges(currentEdges, sourceId, resultNodes)]

----------------------------------------------------------------------------
(* handleExpandCalls: the setNodes and setEdges updaters *)

symbolNodeHeight == 80
callsVerticalGap == 20
maxAttempts == 50

\* currentNodes.filter(|n.x - targetX| < sourceWidth).map({top, bottom})
occupiedRanges(currentNodes, targetX, sourceWidth) ==
    LET inColumn == SelectSeq(currentNodes,
                        LAMBDA n : Abs(n.position.x - targetX) < sourceWidth)
    IN [i \in DOMAIN inColumn |->
            [top |-> inColumn[i].position.y,
             bottom |-> inColumn[i].position.y
                        + estimateNodeHeight(inColumn[i].data.symbols)]]

hasCollision(proposedTop, proposedBottom, ranges) ==
    \E i \in DOMAIN ranges :
        ~ (proposedBottom < ranges[i].top \/ proposedTop > ranges[i].bottom)

\* the for loop of findFreeY from attempt number `attempts` on; returns the y
\* it returns and the number of attempts whose interval collided
RECURSIVE findFreeYFrom(_, _, _, _)
findFreeYFrom(y, attempts, neededHeight, ranges) ==
    IF attempts >= maxAttempts THEN [y |-> y, failed |-> attempts]
    ELSE IF ~ hasCollision(y, y + neededHeight, ranges) THEN [y |-> y, failed |-> attempts]
    ELSE findFreeYFrom(y + symbolNodeHeight + callsVerticalGap, attempts + 1,
                       neededHeight, ranges)

\* the scan that returns the last y it tried when every attempt collided
findFreeYLastAttempt(startY, count, ranges) ==
    LET r == findFreeYFrom(startY, 0, count * (symbolNodeHeight + callsVerticalGap), ranges)
    IN IF r.failed >= maxAttempts
       THEN [r EXCEPT !.y = @ - (symbolNodeHeight + callsVerticalGap)]
       ELSE r

findFreeY(startY, count, ranges) ==
    findFreeYFrom(startY, 0, count * (symbolNodeHeight + callsVerticalGap), ranges)

typedNewNodes(uniqueNewNodes, targetX, startY) ==
    [i \in DOMAIN uniqueNewNodes |->
        [id |-> uniqueNewNodes[i].id,
         type |-> IF uniqueNewNodes[i].type = NoType THEN "symbol"
                  ELSE uniqueNewNodes[i].type,
         data |-> uniqueNewNodes[i].data,
         position |-> [x |-> targetX,
                       y |-> startY + (i - 1) * (symbolNodeHeight + callsVerticalGap)]]]

\* the free-position scan of the merge, for a source node that exists
callsScan(currentNodes, src, count) ==
    findFreeY(sourceYOf(currentNodes, src), count,
              occupiedRanges(currentNodes, targetXOf(currentNodes, src),
                             estimateNodeWidth(currentNodes[src])))

expandCallsSetNodes(currentNodes, sourceId, newNodes) ==
    LET src == find(currentNodes, sourceId)
        uniqueNewNodes == filterNewNodes(currentNodes, newNodes)
    IN IF uniqueNewNodes = <<>>
       THEN [threw |-> FALSE, nodes |-> currentNodes]
       ELSE IF src = 0
       THEN [threw |-> TRUE, nodes |-> currentNodes]
       ELSE [threw |-> FALSE,
             nodes |-> currentNodes
                       \o typedNewNodes(uniqueNewNodes, targetXOf(currentNodes, src),
                                        callsScan(currentNodes, src, Len(uniqueNewNodes)).y)]

\* `${e.source}-${e.target}`
edgeKey(e) == e.source \o "-" \o e.target

\* newEdges.filter((e) => !existingEdgeIds.has(`${e.source}-${e.target}`))
filterCallEdges(currentEdges, newEdges) ==
    SelectSeq(newEdges, LAMBDA e :
        edgeKey(e) \notin {edgeKey(currentEdges[i]) : i \in DOMAIN currentEdges})

expandCallsSetEdges(currentEdges, newEdges) ==
    currentEdges \o filterCallEdges(currentEdges, newEdges)

handleExpandCalls(currentNodes, currentEdges, sourceId, newNodes, newEdges) ==
    LET r == expandCallsSetNodes(currentNodes, sourceId, newNodes)
    IN IF r.threw
       THEN [threw |-> TRUE, nodes |-> currentNodes, edges |-> currentEdges]
       ELSE [threw |-> FALSE, nodes |-> r.nodes,
             edges |-> expandCallsSetEdges(currentEdges, newEdges)]

----------------------------------------------------------------------------
(* handleGraphData with the no-edge layout (getGridLayout) *)

\* estimateNodeSize(node).width of utils/layout
estimateNodeSizeWidth(node) ==
    IF node.type # "file"
    THEN Max(180, (IF Len(node.data.label) = 0 THEN 10 ELSE Len(node.data.label)) * 8 + 80)
    ELSE estimateNodeWidth(node)

\* the width of the first node in place of the largest
firstWidthFrom(ns, i) == IF ns = <<>> THEN 0 ELSE estimateNodeSizeWidth(ns[1])

\* Math.max(...sizes.map((s) => s.width))
RECURSIVE maxWidthFrom(_, _)
maxWidthFrom(ns, i) ==
    IF i > Len(ns) THEN 0
    ELSE Max(estimateNodeSizeWidth(ns[i]), maxWidthFrom(ns, i + 1))

gridGap == 40

getGridLayout(ns) ==
    LET fileNodes == SelectSeq(ns, LAMBDA n : n.type = "file")
        maxWidth == maxWidthFrom(fileNodes, 1)
    IN IF fileNodes = <<>> THEN ns
       ELSE [i \in DOMAIN fileNodes |->
                [fileNodes[i] EXCEPT !.position = [x |-> (i - 1) * (maxWidth + gridGap), y |-> 0]]]

\* typedNodes of handleGraphData: type defaults to "file", position to (0,0)
typedGraphNodes(dataNodes) ==
    [i \in DOMAIN dataNodes |->
        [id |-> dataNodes[i].id,
         type |-> IF dataNodes[i].type = NoType THEN "file" ELSE dataNodes[i].type,
         data |-> dataNodes[i].data,
         position |-> [x |-> 0, y |-> 0]]]

----------------------------------------------------------------------------
(* The state machine.  nodes and edges are the React state of App, error is
   the exception a state updater raised (the render that runs it fails and
   no later handler runs). *)

Init ==
    /\ nodes = defaultNodes
    /\ edges = defaultEdges
    /\ error = "none"
    /\ highlightedFiles = {}
    /\ refsInFlight = 0
    /\ ServerInit
    /\ EstimateInit
    /\ SnippetInit
    /\ SetupInit
    /\ ScanInit
    /\ BuildInit
    /\ ExpandInit
    /\ GraphInit
    /\ GridInit
    /\ OverlayInit
    /\ ImportsInit
    /\ CallsInit
    /\ CommandInit

\* socket "graph:data": replace nodes and edges by the laid-out push
HandleGraphData(dataNodes) ==
    /\ error = "none"
    /\ nodes' = getGridLayout(typedGraphNodes(dataNodes))
    /\ edges' = <<>>
    /\ UNCHANGED error
    /\ UNCHANGED hoverVars
    /\ UNCHANGED notClient

\* a merge result becomes the state; a throwing updater sets error
Commit(r) ==
    /\ nodes' = r.nodes
    /\ edges' = r.edges
    /\ error' = IF r.threw THEN "TypeError" ELSE error
    /\ Len(r.nodes) <= MaxNodes
    /\ Len(r.edges) <= MaxEdges
    /\ UNCHANGED hoverVars
    /\ UNCHANGED notClient

\* the .then of handleExpandFile for a result {status: "ok", nodes}
HandleExpandFile(sourceId, resultNodes) ==
    /\ error = "none"
    /\ Commit(handleExpandFile(nodes, edges, sourceId, resultNodes))

\* the .then of handleExpandFile for a result without a node list
HandleExpandFileNoNodes(sourceId) ==
    /\ error = "none"
    /\ UNCHANGED <<nodes, edges, error>>
    /\ UNCHANGED hoverVars
    /\ UNCHANGED notClient

\* handleExpandCalls(sourceId, newNodes, newEdges)
HandleExpandCalls(sourceId, newNodes, newEdges) ==
    /\ error = "none"
    /\ Commit(handleExpandCalls(nodes, edges, sourceId, newNodes, newEdges))

Next ==
    \/ \E p \in PushSet : HandleGraphData(p)
    \/ \E s \in SourceIds, N \in FragNodeLists : HandleExpandFile(s, N)
    \/ \E s \in SourceIds : HandleExpandFileNoNodes(s)
    \/ \E s \in SourceIds, N \in FragNodeLists,
          E \in FragEdgeLists : HandleExpandCalls(s, N, E)

Spec == Init /\ [][Next]_allVars

----------------------------------------------------------------------------
(* Properties of the expansion merges.  A property of "the merge" is stated
   for the result of both handlers on the current graph, for every source id
   and fragment of the model. *)

\* the part of a node a merge must not touch: everything but isExpanded
Payload(n) == [n EXCEPT !.data.isExpanded = FALSE]

\* C1: merging the same fragment for the same source a second time leaves
\* nodes (ids, positions, flags) and edges exactly as the first merge left them
MergeIdempotent ==
    /\ \A s \in SourceIds, N \in FragNodeLists :
        LET r == handleExpandFile(nodes, edges, s, N)
        IN ~ r.threw => handleExpandFile(r.nodes, r.edges, s, N) = r
    /\ \A s \in SourceIds, N \in FragNodeLists, E \in FragEdgeLists :
        LET r == handleExpandCalls(nodes, edges, s, N, E)
        IN ~ r.threw => handleExpandCalls(r.nodes, r.edges, s, N, E) = r

\* merges have added two nodes and an edge to a pushed graph (a push
\* leaves no edge and flags no node)
MergeIdempotentWitness ==
    /\ error = "none"
    /\ Len(nodes) = 3
    /\ Len(edges) >= 1
    /\ \E i \in DOMAIN nodes : nodes[i].data.isExpanded

\* C2: every stored edge has its source and its target among the node ids
NoDanglingEdges ==
    \A i \in DOMAIN edges :
        edges[i].source \in NodeIds(nodes) /\ edges[i].target \in NodeIds(nodes)

\* C3: node ids are pairwise distinct
UniqueNodeIds ==
    \A i, j \in DOMAIN nodes : i # j => nodes[i].id # nodes[j].id

\* C4: no two stored edges share a (source,target) pair
UniqueEdgePairs ==
    \A i, j \in DOMAIN edges :
        i # j => <<edges[i].source, edges[i].target>> # <<edges[j].source, edges[j].target>>

\* vertical interval of a placed node, by the height estimate of the hook
Top(n) == n.position.y
Bottom(n) == n.position.y + estimateNodeHeight(n.data.symbols)

Disjoint(n, m) == Bottom(n) < Top(m) \/ Bottom(m) < Top(n)

\* the nodes of ns in the target column of source index src: x within one
\* source width of the target x
InTargetColumn(ns, src) ==
    {i \in DOMAIN ns :
        Abs(ns[i].position.x - targetXOf(ns, src)) < estimateNodeWidth(ns[src])}

\* the nodes r appended to ns keep clear of the nodes of ns in the target column
PlacedClear(ns, src, r) ==
    \A i \in (Len(ns) + 1)..Len(r.nodes), k \in InTargetColumn(ns, src) :
        Disjoint(r.nodes[i], ns[k])

\* C5: when a merge places new nodes with fewer than 50 placement attempts,
\* no new node's vertical interval meets that of an existing node of the
\* target column
NoOverlapInTargetColumn ==
    /\ \A s \in SourceIds, N \in FragNodeLists :
        LET r == handleExpandFile(nodes, edges, s, N)
            src == find(nodes, s)
        IN (src # 0 /\ ~ r.threw) => PlacedClear(nodes, src, r)
    /\ \A s \in SourceIds, N \in FragNodeLists :
        LET r == handleExpandCalls(nodes, edges, s, N, <<>>)
            src == find(nodes, s)
        IN (/\ src # 0
            /\ ~ r.threw
            /\ callsScan(nodes, src, Len(filterNewNodes(nodes, N))).failed < maxAttempts)
           => PlacedClear(nodes, src, r)

\* the graph of the scenario: fileA with two symbols alone at (0,0)
ScenarioGraph ==
    <<[id |-> "a", type |-> "file", data |-> DataFile, position |-> [x |-> 0, y |-> 0]]>>

\* the nodes r appended to ns sit at x = source.x + width(source) + 60
PlacedAtColumn(ns, src, r) ==
    \A i \in (Len(ns) + 1)..Len(r.nodes) :
        r.nodes[i].position.x
            = ns[src].position.x + estimateNodeWidth(ns[src]) + 60

\* C6: every node a merge adds for a source that is in the graph sits at
\* x = source.x + estimated source width + 60; fileA at (0,0) expanded with
\* fileB gives 2 nodes, 1 edge and fileB.x = 0 + 628 + 60
PlacedRightOfSource ==
    /\ \A s \in SourceIds, N \in FragNodeLists :
        LET src == find(nodes, s)
        IN src # 0 => PlacedAtColumn(nodes, src, handleExpandFile(nodes, edges, s, N))
    /\ \A s \in SourceIds, N \in FragNodeLists :
        LET src == find(nodes, s)
        IN src # 0 => PlacedAtColumn(nodes, src, handleExpandCalls(nodes, edges, s, N, <<>>))
    /\ (nodes = ScenarioGraph /\ edges = <<>>) =>
        LET r == handleExpandFile(nodes, edges, "a", <<FragB>>)
        IN /\ Len(r.nodes) = 2
           /\ Len(r.edges) = 1
           /\ r.nodes[2].id = "b"
           /\ r.nodes[2].position.x = 688

\* the scenario has run: fileB stands right of fileA, joined by one edge
PlacedRightOfSourceWitness ==
    /\ error = "none"
    /\ Len(nodes) = 2
    /\ Len(edges) = 1
    /\ nodes[1].id = "a" /\ nodes[1].position.x = 0
    /\ nodes[2].id = "b" /\ nodes[2].position.x = 688
    /\ edges[1].source = "a" /\ edges[1].target = "b"

\* r keeps every node of ns at its index with its id, type, position and data,
\* the isExpanded flag of the nodes with id s excepted, and appends only ids
\* that ns does not have
KeepsExisting(ns, s, r) ==
    /\ Len(r.nodes) >= Len(ns)
    /\ \A i \in DOMAIN ns :
        /\ Payload(r.nodes[i]) = Payload(ns[i])
        /\ (r.nodes[i].data.isExpanded # ns[i].data.isExpanded => ns[i].id = s)
    /\ \A i \in (Len(ns) + 1)..Len(r.nodes) : r.nodes[i].id \notin NodeIds(ns)

\* C7: a merge changes neither the position nor the payload of a node that
\* is already in the graph (the expanded flag of the source apart), and a
\* fragment node whose id is already in the graph is ignored
ExistingNodesKept ==
    /\ \A s \in SourceIds, N \in FragNodeLists :
        KeepsExisting(nodes, s, handleExpandFile(nodes, edges, s, N))
    /\ \A s \in SourceIds, N \in FragNodeLists :
        KeepsExisting(nodes, s, handleExpandCalls(nodes, edges, s, N, <<>>))

\* after handleExpandFile flagged a and added a third node, pushed node b
\* still has the payload and the place of the push
ExistingNodesKeptWitness ==
    /\ error = "none"
    /\ Len(nodes) = 3
    /\ nodes[2].id = "b"
    /\ nodes[2].data.filename = "util.js"
    /\ nodes[2].position = [x |-> 668, y |-> 0]
    /\ nodes[1].data.isExpanded

\* r keeps the node list of ns (same ids at the same positions) and every
\* node with id s is flagged expanded in it
MarkedAndKept(ns, s, r) ==
    /\ ~ r.threw
    /\ Len(r.nodes) = Len(ns)
    /\ \A i \in DOMAIN ns :
        /\ r.nodes[i].id = ns[i].id
        /\ r.nodes[i].position = ns[i].position
        /\ (ns[i].id = s => r.nodes[i].data.isExpanded)

\* every node of fragment N is already in ns
AllExisting(ns, N) == filterNewNodes(ns, N) = <<>>

\* C8 as stated: when every fragment node already exists, either merge flags
\* the source node expanded and leaves node set and positions unchanged
AllExistingMarksSource ==
    /\ \A s \in SourceIds, N \in FragNodeLists :
        AllExisting(nodes, N) =>
            MarkedAndKept(nodes, s, handleExpandFile(nodes, edges, s, N))
    /\ \A s \in SourceIds, N \in FragNodeLists :
        AllExisting(nodes, N) =>
            MarkedAndKept(nodes, s, handleExpandCalls(nodes, edges, s, N, <<>>))

\* C8 amended: when every fragment node already exists, handleExpandFile
\* flags the source node expanded and leaves node set and positions
\* unchanged; handleExpandCalls returns the node list as it is, flags included
AllExistingFileMarksCallsKeep ==
    /\ \A s \in SourceIds, N \in FragNodeLists :
        AllExisting(nodes, N) =>
            MarkedAndKept(nodes, s, handleExpandFile(nodes, edges, s, N))
    /\ \A s \in SourceIds, N \in FragNodeLists :
        AllExisting(nodes, N) =>
            LET r == handleExpandCalls(nodes, edges, s, N, <<>>)
            IN ~ r.threw /\ r.nodes = nodes

\* handleExpandFile ran on a one-node graph with a fragment that added
\* nothing, and the node is flagged expanded
AllExistingWitness ==
    /\ error = "none"
    /\ edges = <<>>
    /\ Len(nodes) = 1
    /\ nodes[1].id \in SourceIds
    /\ nodes[1].data.isExpanded

\* the ids of the well-formed nodes of a fragment
WellFormedIds(N) == {N[i].id : i \in DOMAIN N} \ {NoId}

\* C9: no node without an id is ever stored in the graph, and a merge
\* stores every well-formed new node of the fragment
IdlessNodesDropped ==
    /\ \A i \in DOMAIN nodes : nodes[i].id # NoId
    /\ \A s \in SourceIds, N \in FragNodeLists :
        LET r == handleExpandFile(nodes, edges, s, N)
        IN ~ r.threw => NodeIds(nodes) \cup WellFormedIds(N) \subseteq NodeIds(r.nodes)
    /\ \A s \in SourceIds, N \in FragNodeLists :
        LET r == handleExpandCalls(nodes, edges, s, N, <<>>)
        IN ~ r.threw => NodeIds(nodes) \cup WellFormedIds(N) \subseteq NodeIds(r.nodes)

\* C10: no merge raises an error, and a merge whose source id is not in the
\* graph (error is set by nothing else) keeps every node where it is
MissingSourceHarmless ==
    /\ error = "none"
    /\ \A s \in SourceIds, N \in FragNodeLists :
        find(nodes, s) = 0 =>
            /\ KeepsExisting(nodes, s, handleExpandFile(nodes, edges, s, N))
            /\ KeepsExisting(nodes, s, handleExpandCalls(nodes, edges, s, N, <<>>))

----------------------------------------------------------------------------
(* Two expansion results in flight *)

\* the fragments whose nodes all carry an id and whose ids are pairwise
\* distinct
CleanFragNodeLists ==
    {N \in FragNodeLists :
        /\ \A i \in DOMAIN N : N[i].id # NoId
        /\ \A i, j \in DOMAIN N : i # j => N[i].id # N[j].id}

\* a result on its way to its handler: the then-callback of handleExpandFile
\* (which reads no edge list) or the call of handleExpandCalls
Requests ==
    {q \in [kind : {"file", "calls"}, s : SourceIds,
            N : CleanFragNodeLists, E : FragEdgeLists] :
        q.kind = "file" => q.E = <<>>}

merge(ns, es, q) ==
    IF q.kind = "file" THEN handleExpandFile(ns, es, q.s, q.N)
    ELSE handleExpandCalls(ns, es, q.s, q.N, q.E)

\* the result of q1 is merged, then the result of q2
mergeBoth(ns, es, q1, q2) ==
    LET r1 == merge(ns, es, q1)
    IN IF r1.threw THEN r1 ELSE merge(r1.nodes, r1.edges, q2)

EdgePairs(es) == {<<es[i].source, es[i].target>> : i \in DOMAIN es}

Count(ns, id) == Cardinality({i \in DOMAIN ns : ns[i].id = id})

\* both orders of merging q1 and q2 into (ns, es) end with the same node ids
SameNodeIds(ns, es, q1, q2) ==
    NodeIds(mergeBoth(ns, es, q1, q2).nodes) = NodeIds(mergeBoth(ns, es, q2, q1).nodes)

\* both orders end with the same (source,target) pairs
SameEdgePairs(ns, es, q1, q2) ==
    EdgePairs(mergeBoth(ns, es, q1, q2).edges) = EdgePairs(mergeBoth(ns, es, q2, q1).edges)

\* a new id that both fragments return is stored once
SharedStoredOnce(ns, es, q1, q2) ==
    \A id \in (NodeIds(q1.N) \cap NodeIds(q2.N)) \ NodeIds(ns) :
        Count(mergeBoth(ns, es, q1, q2).nodes, id) = 1

\* C11: for two results in flight whose sources are in the graph, both
\* arrival orders end with the same node ids and the same (source,target)
\* edge pairs, and an id that both fragments return is stored once
MergeOrderIrrelevant ==
    \A q1, q2 \in Requests :
        (q1.s \in NodeIds(nodes) /\ q2.s \in NodeIds(nodes)) =>
            /\ SameNodeIds(nodes, edges, q1, q2)
            /\ SameEdgePairs(nodes, edges, q1, q2)
            /\ SharedStoredOnce(nodes, edges, q1, q2)

----------------------------------------------------------------------------
(* Symbol hover: handleSymbolHover, styledNodes, styledEdges *)

\* every node lsp.lua builds carries data.filepath; the placeholder of
\* defaultNodes does not
hasFilepath(n) == n.id # "waiting"

\* the files lists a references response may carry
RefFileSets == {{}, {"b"}, {"a", "b"}}

\* the fragments merged while hovers are in flight
HoverFragNodeLists == {<<FragB>>, <<FragA, FragSym>>}
HoverFragEdgeLists == {<<MkEdge("a", "b")>>}

\* handleSymbolHover(nodeId, sym, false): the overlay is cleared
SymbolHoverLeave ==
    /\ error = "none"
    /\ highlightedFiles' = {}
    /\ UNCHANGED <<nodes, edges, error, refsInFlight>>
    /\ UNCHANGED notClient

\* handleSymbolHover(nodeId, sym, true) on a symbol row of node i: the node
\* has a filepath, fetchReferences is called
SymbolHoverEnter(i) ==
    /\ error = "none"
    /\ nodes[i].data.symbols # <<>>
    /\ hasFilepath(nodes[i])
    /\ refsInFlight < MaxRefs
    /\ refsInFlight' = refsInFlight + 1
    /\ UNCHANGED <<nodes, edges, error, highlightedFiles>>
    /\ UNCHANGED notClient

\* the then-callback for {status: "ok", files}
ReferencesResponse(files) ==
    /\ error = "none"
    /\ refsInFlight > 0
    /\ refsInFlight' = refsInFlight - 1
    /\ highlightedFiles' = files
    /\ UNCHANGED <<nodes, edges, error>>
    /\ UNCHANGED notClient

\* the response carries no files list, or fetch rejects (the catch logs)
ReferencesFailed ==
    /\ error = "none"
    /\ refsInFlight > 0
    /\ refsInFlight' = refsInFlight - 1
    /\ UNCHANGED <<nodes, edges, error, highlightedFiles>>
    /\ UNCHANGED notClient

\* styledNodes: data.highlighted is added when the overlay is not empty
styledNodesHighlightedOnly(ns, hl) ==
    SelectSeq(ns, LAMBDA n : hl = {} \/ n.id \in hl)

styledNodes(ns, hl) ==
    IF hl = {} THEN ns
    ELSE [i \in DOMAIN ns |->
            [id |-> ns[i].id, type |-> ns[i].type, position |-> ns[i].position,
             data |-> [filename |-> ns[i].data.filename,
                       symbols |-> ns[i].data.symbols,
                       label |-> ns[i].data.label,
                       isExpanded |-> ns[i].data.isExpanded,
                       highlighted |-> ns[i].id \in hl]]]

\* styledEdges: style and animated are set from the overlay
styledEdges(es, hl) ==
    [i \in DOMAIN es |->
        [id |-> es[i].id, source |-> es[i].source, target |-> es[i].target,
         animated |-> hl # {} /\ (es[i].source \in hl \/ es[i].target \in hl)]]

HoverNext ==
    \/ SymbolHoverLeave
    \/ \E i \in DOMAIN nodes : SymbolHoverEnter(i)
    \/ \E F \in RefFileSets : ReferencesResponse(F)
    \/ ReferencesFailed

\* the client with hovers: pushes, merges and hover events in any order
NextHover ==
    \/ \E p \in PushSet : HandleGraphData(p)
    \/ \E s \in SourceIds, N \in HoverFragNodeLists : HandleExpandFile(s, N)
    \/ \E s \in SourceIds, N \in HoverFragNodeLists,
          E \in HoverFragEdgeLists : HandleExpandCalls(s, N, E)
    \/ HoverNext

SpecHover == Init /\ [][NextHover]_allVars

\* what React Flow is given shows the nodes and edges of the state: same ids
\* in the same order at the same positions, same (source,target) pairs
StyledKeepsGraph ==
    LET sn == styledNodes(nodes, highlightedFiles)
        se == styledEdges(edges, highlightedFiles)
    IN /\ Len(sn) = Len(nodes)
       /\ \A i \in DOMAIN nodes :
            sn[i].id = nodes[i].id /\ sn[i].position = nodes[i].position
       /\ Len(se) = Len(edges)
       /\ \A i \in DOMAIN edges :
            se[i].source = edges[i].source /\ se[i].target = edges[i].target

\* C12: a hover step (enter, leave, the arrival or the failure of a
\* references response) leaves nodes, edges and error as they are, and the
\* styled graph handed to the view has the nodes, positions and edges of the
\* state whatever the overlay holds
HoverChangesOverlayOnly ==
    /\ [] StyledKeepsGraph
    /\ [][HoverNext => UNCHANGED <<nodes, edges, error>>]_allVars

\* a references response has highlighted a node of a graph that merges built
HoverChangesOverlayOnlyWitness ==
    /\ error = "none"
    /\ Len(nodes) >= 2
    /\ Len(edges) >= 1
    /\ refsInFlight = 0
    /\ highlightedFiles # {}
    /\ \E i \in DOMAIN nodes :
        styledNodes(nodes, highlightedFiles)[i].data.highlighted

----------------------------------------------------------------------------
(* Graph push *)

\* C13: a step that handles the push of node list p (the pushes of the model
\* carry no edges) leaves exactly the ids of p as node ids and no edge,
\* whatever the graph held before
PushReplacesGraph ==
    [][\A p \in PushSet :
          HandleGraphData(p) => (NodeIds(nodes') = NodeIds(p) /\ edges' = <<>>)]_vars

----------------------------------------------------------------------------
(* server.js: the pending requests and the endpoints that await them *)


\* the callers of createPendingRequest: /api/expand, /api/references,
\* /api/expand-file and requestSymbols
RequestKinds == {"expand", "refs", "expandfile", "symbols"}

\* the bodies the editor posts to /api/expand-result and /api/symbols
Payloads == {"x", "y"}

\* a request id no createPendingRequest call returned
UnknownId == 0

\* the only file whose symbols are asked for
SymbolsFile == "f"

NoResponse == [status |-> "none", body |-> "none"]

\* the catch branch of the endpoint; requestSymbols rethrows to its caller
emptyResult(kind) ==
    CASE kind = "refs" -> [status |-> "ok", body |-> "files: []"]
      [] kind = "symbols" -> [status |-> "throw", body |-> "none"]
      [] OTHER -> [status |-> "ok", body |-> "nodes: [], edges: []"]

\* res.json({status: "ok", ...result}) / return await promise
okResult(kind, value) ==
    IF kind = "symbols" THEN [status |-> "return", body |-> value]
    ELSE [status |-> "ok", body |-> value]

\* pendingRequests and requests as one value, for the functions below
Srv == [pendingRequests |-> pendingRequests, requests |-> requests]

SetSrv(S) ==
    /\ pendingRequests' = S.pendingRequests
    /\ requests' = S.requests

\* cleanup without the delete: the entry stays in the map
cleanupKeepsEntry(S, id) ==
    [S EXCEPT !.requests[id].timer = IF @ = "armed" THEN "cleared" ELSE @]

\* cleanup: clearTimeout(timeoutId); pendingRequests.delete(requestId)
cleanup(S, id) ==
    [S EXCEPT !.pendingRequests = @ \ {id},
              !.requests[id].timer = IF @ = "armed" THEN "cleared" ELSE @]

\* the catch branch answering with the error
catchErrorAnswer(S, id) ==
    LET C == cleanup(S, id)
    IN [C EXCEPT !.requests[id].pc = "done",
                 !.requests[id].response = [status |-> "error", body |-> "none"]]

\* catch (err) { cleanup(); res.json(<empty result>) }
catch(S, id) ==
    LET C == cleanup(S, id)
    IN [C EXCEPT !.requests[id].pc = "done",
                 !.requests[id].response = emptyResult(S.requests[id].kind)]

\* const result = await promise, once the promise is settled
awaitPromise(S, id) ==
    LET q == S.requests[id]
    IN IF q.promise = "pending" THEN [S EXCEPT !.requests[id].pc = "awaitPromise"]
       ELSE IF q.promise = "resolved"
       THEN [S EXCEPT !.requests[id].pc = "done",
                      !.requests[id].response = okResult(q.kind, q.value)]
       ELSE catch(S, id)

\* a settled promise wakes the handler that awaits it
resume(S, id) ==
    IF S.requests[id].pc = "awaitPromise" THEN awaitPromise(S, id) ELSE S

\* resolve(value) of a promise: only a pending promise is settled
settle(S, id, state, value) ==
    IF S.requests[id].promise # "pending" THEN S
    ELSE [S EXCEPT !.requests[id].promise = state, !.requests[id].value = value]

\* wrappedResolve without cleanup: timer and entry stay
wrappedResolveNoCleanup(S, id, value) == settle(S, id, "resolved", value)

\* wrappedResolve: cleanup(); resolve(value)
wrappedResolve(S, id, value) == settle(cleanup(S, id), id, "resolved", value)

\* resolvePendingRequest(requestId, value)
resolvePendingRequest(S, id, value) ==
    IF id \in S.pendingRequests THEN resume(wrappedResolve(S, id, value), id)
    ELSE S

\* the timer callback without the delete
timeoutCallbackKeepsEntry(S, id) ==
    settle([S EXCEPT !.requests[id].timer = "fired"], id, "rejected", "Timeout")

\* the timer callback: pendingRequests.delete(requestId); reject(Timeout)
timeoutCallback(S, id) ==
    settle([S EXCEPT !.pendingRequests = @ \ {id}, !.requests[id].timer = "fired"],
           id, "rejected", "Timeout")

\* the request createPendingRequest and sendToNeovim leave behind when the
\* editor is registered: entry set, timer armed, nvim spawned
newRequest(kind) ==
    [kind |-> kind, send |-> "running", promise |-> "pending", value |-> "none",
     timer |-> "armed", pc |-> "awaitSend", response |-> NoResponse]

\* symbolsCache.set(filepath, symbols)
cacheSet(cache, file, value) ==
    {e \in cache : e[1] # file} \cup {<<file, value>>}

\* symbolsCache.has(filepath)
cacheHas(cache, file) == \E e \in cache : e[1] = file

\* POST /api/register
Register ==
    /\ ~ crashed
    /\ neovimSocket' = TRUE
    /\ UNCHANGED <<pendingRequests, requests, symbolsCache, crashed>>
    /\ UNCHANGED notServer

\* POST /api/expand, /api/references, /api/expand-file, or requestSymbols on
\* a cache miss, up to the first await that suspends: with no editor
\* registered sendToNeovim rejects at once and the catch branch runs in the
\* same turn of the event loop
Request(kind) ==
    /\ ~ crashed
    /\ Len(requests) < MaxRequests
    /\ kind = "symbols" => ~ cacheHas(symbolsCache, SymbolsFile)
    /\ LET id == Len(requests) + 1
           S == [pendingRequests |-> pendingRequests \cup {id},
                 requests |-> Append(requests, newRequest(kind))]
       IN IF neovimSocket THEN SetSrv(S)
          ELSE SetSrv(catch([S EXCEPT !.requests[id].send = "failed"], id))
    /\ UNCHANGED <<neovimSocket, symbolsCache, crashed>>
    /\ UNCHANGED notServer

\* the editor has taken the command of nvim --remote-send; the nvim process
\* has not closed yet
SendDelivered(id) ==
    /\ ~ crashed
    /\ requests[id].send = "running"
    /\ requests' = [requests EXCEPT ![id].send = "delivered"]
    /\ UNCHANGED <<neovimSocket, pendingRequests, symbolsCache, crashed>>
    /\ UNCHANGED notServer

\* nvim closes with code 0: sendToNeovim resolves and the handler goes on
\* to await the promise
SendCloses(id) ==
    /\ ~ crashed
    /\ requests[id].send \in {"running", "delivered"}
    /\ SetSrv(awaitPromise([Srv EXCEPT !.requests[id].send = "ok"], id))
    /\ UNCHANGED <<neovimSocket, symbolsCache, crashed>>
    /\ UNCHANGED notServer

\* nvim closes with another code or cannot be spawned: sendToNeovim
\* rejects, the catch branch runs
SendFails(id) ==
    /\ ~ crashed
    /\ requests[id].send = "running"
    /\ SetSrv(catch([Srv EXCEPT !.requests[id].send = "failed"], id))
    /\ UNCHANGED <<neovimSocket, symbolsCache, crashed>>
    /\ UNCHANGED notServer

\* the editor answers only a command it was given, on the endpoint of the
\* request; any other id a response carries is tracked by no entry
FromEditor(id, symbolsEndpoint) ==
    id \in pendingRequests =>
        /\ requests[id].send \in {"delivered", "ok"}
        /\ (requests[id].kind = "symbols") = symbolsEndpoint

\* POST /api/expand-result {request_id, nodes, edges, files}
PostExpandResult(id, value) ==
    /\ ~ crashed
    /\ FromEditor(id, FALSE)
    /\ SetSrv(resolvePendingRequest(Srv, id, value))
    /\ UNCHANGED <<neovimSocket, symbolsCache, crashed>>
    /\ UNCHANGED notServer

\* POST /api/symbols {request_id, filepath, symbols}
PostSymbols(id, value) ==
    /\ ~ crashed
    /\ FromEditor(id, TRUE)
    /\ symbolsCache' = cacheSet(symbolsCache, SymbolsFile, value)
    /\ SetSrv(resolvePendingRequest(Srv, id, value))
    /\ UNCHANGED <<neovimSocket, crashed>>
    /\ UNCHANGED notServer

\* the setTimeout callback of request id.  While the handler still awaits
\* sendToNeovim the rejected promise has no handler: Node reports an
\* unhandled rejection, which ends the process unless it was started with
\* --unhandled-rejections=warn or none
TimeoutFires(id) ==
    /\ ~ crashed
    /\ requests[id].timer = "armed"
    /\ SetSrv(resume(timeoutCallback(Srv, id), id))
    /\ \E terminates \in BOOLEAN :
        crashed' = (requests[id].pc = "awaitSend" /\ terminates)
    /\ UNCHANGED <<neovimSocket, symbolsCache>>
    /\ UNCHANGED notServer

\* the request ids a response may carry
ResponseIds == {UnknownId} \cup (1..MaxRequests)

NextServer ==
    \/ Register
    \/ \E kind \in RequestKinds : Request(kind)
    \/ \E id \in DOMAIN requests : SendDelivered(id)
    \/ \E id \in DOMAIN requests : SendCloses(id)
    \/ \E id \in DOMAIN requests : SendFails(id)
    \/ \E id \in ResponseIds, value \in Payloads : PostExpandResult(id, value)
    \/ \E id \in ResponseIds, value \in Payloads : PostSymbols(id, value)
    \/ \E id \in DOMAIN requests : TimeoutFires(id)

SpecServer == Init /\ [][NextServer]_allVars

\* the server with the scheduling the runtime gives: a spawned nvim process
\* closes in the end, and an armed timer fires unless it is cleared
SpecServerFair ==
    /\ SpecServer
    /\ \A id \in 1..MaxRequests :
        /\ WF_serverVars(id \in DOMAIN requests /\ (SendCloses(id) \/ SendFails(id)))
        /\ WF_serverVars(id \in DOMAIN requests /\ TimeoutFires(id))

----------------------------------------------------------------------------
(* Properties of the pending requests *)

\* C14: a request whose timer fires was never resolved; the timer callback
\* rejects its promise with Timeout and removes its entry, and a resolve
\* call with that id afterwards changes nothing
TimeoutRejectsAndRemoves ==
    /\ \A id \in DOMAIN requests :
        requests[id].timer = "armed" =>
            LET S == timeoutCallback(Srv, id)
            IN /\ S.requests[id].promise = "rejected"
               /\ S.requests[id].value = "Timeout"
               /\ id \notin S.pendingRequests
    /\ \A id \in DOMAIN requests :
        requests[id].timer = "fired" =>
            /\ requests[id].promise = "rejected"
            /\ requests[id].value = "Timeout"
            /\ id \notin pendingRequests
            /\ \A value \in Payloads : resolvePendingRequest(Srv, id, value) = Srv

\* a request timed out while its handler awaited the promise and was
\* answered with the empty result
TimeoutRejectsAndRemovesWitness ==
    /\ ~ crashed
    /\ \E id \in DOMAIN requests :
        /\ requests[id].timer = "fired"
        /\ requests[id].send = "ok"
        /\ requests[id].pc = "done"
        /\ requests[id].response = emptyResult(requests[id].kind)

\* no request is settled both ways: a resolved promise has a cleared timer,
\* a rejected one a fired timer
SettledOneWay ==
    \A id \in DOMAIN requests :
        /\ requests[id].promise = "resolved" =>
            requests[id].timer = "cleared" /\ requests[id].value \in Payloads
        /\ requests[id].promise = "rejected" => requests[id].timer = "fired"

\* resolve on a tracked id resolves with the value given, removes the entry
\* and clears the timer
ResolveSettles ==
    \A id \in pendingRequests, value \in Payloads :
        LET S == resolvePendingRequest(Srv, id, value)
        IN /\ S.requests[id].promise = "resolved"
           /\ S.requests[id].value = value
           /\ S.requests[id].timer = "cleared"
           /\ id \notin S.pendingRequests

\* a resolved promise keeps its state and its value
ResolvedStays ==
    \A id \in DOMAIN requests :
        requests[id].promise = "resolved" =>
            /\ requests'[id].promise = "resolved"
            /\ requests'[id].value = requests[id].value

\* C15: resolve(requestId, value) on a tracked id resolves the promise with
\* that value, removes the entry and cancels the timer; a request is settled
\* by the response or by the timeout, never by both, and a resolved promise
\* is never rejected afterwards
ResolveOnce ==
    /\ [] (ResolveSettles /\ SettledOneWay)
    /\ [][ResolvedStays]_serverVars

\* a request was resolved with "y" and answered with it, while another timed out
ResolveOnceWitness ==
    /\ ~ crashed
    /\ \E id, other \in DOMAIN requests :
        /\ requests[id].promise = "resolved"
        /\ requests[id].value = "y"
        /\ requests[id].response = okResult(requests[id].kind, "y")
        /\ requests[other].promise = "rejected"

\* C16: the table holds entries of created requests only, one per id, and
\* holds the entry of a request exactly while its promise is pending and
\* its timer armed (not resolved, not timed out, not cleaned up); a request
\* whose handler has finished has no entry
EntryWhileOutstanding ==
    /\ pendingRequests \subseteq DOMAIN requests
    /\ \A id \in DOMAIN requests :
        /\ id \in pendingRequests <=>
            (requests[id].promise = "pending" /\ requests[id].timer = "armed")
        /\ requests[id].pc = "done" => id \notin pendingRequests

\* one request ended by a failed send, one by a response, and the table is empty
EntryWhileOutstandingWitness ==
    /\ ~ crashed
    /\ neovimSocket
    /\ pendingRequests = {}
    /\ \E id, other \in DOMAIN requests :
        /\ requests[id].send = "failed" /\ requests[id].pc = "done"
        /\ requests[other].promise = "resolved" /\ requests[other].pc = "done"

\* C17: an endpoint whose send was rejected (no editor registered, or nvim
\* failed) has answered status ok with its empty result, and no endpoint
\* ever answers with an error
UnavailableAnswersEmpty ==
    \A id \in DOMAIN requests :
        requests[id].kind # "symbols" =>
            /\ requests[id].response.status \in {"none", "ok"}
            /\ requests[id].send = "failed" =>
                /\ requests[id].pc = "done"
                /\ requests[id].response = emptyResult(requests[id].kind)
                /\ requests[id].response.body
                     = (IF requests[id].kind = "refs" THEN "files: []"
                        ELSE "nodes: [], edges: []")

\* /api/references was asked before the editor registered and /api/expand
\* saw nvim fail afterwards
UnavailableAnswersEmptyWitness ==
    /\ ~ crashed
    /\ neovimSocket
    /\ Len(requests) = 2
    /\ requests[1].kind = "refs" /\ requests[1].send = "failed"
    /\ requests[1].timer = "cleared"
    /\ requests[2].kind = "expand" /\ requests[2].send = "failed"

\* C18: every request of /api/expand, /api/expand-file and /api/references
\* is answered in the end
EveryRequestAnswered ==
    \A id \in 1..MaxRequests :
        [] ((id \in DOMAIN requests /\ requests[id].kind # "symbols")
                => <> (id \in DOMAIN requests /\ requests[id].response # NoResponse))

\* C19: a response whose request id has no entry in the pending table
\* leaves the whole server state as it is
UntrackedResponseDiscarded ==
    [][\A id \in ResponseIds, value \in Payloads :
          (id \notin pendingRequests
             /\ (PostExpandResult(id, value) \/ PostSymbols(id, value)))
          => UNCHANGED serverVars]_serverVars

----------------------------------------------------------------------------
(* utils/layout: estimateNodeSize as a function of the node *)

\* estimateNodeSize(node).height: 70 for a legacy symbol node, else
\* headerHeight + min(symbolsHeight, maxSymbolsHeight) + 16 with the
\* constants of estimateNodeHeight
estimateNodeSizeHeight(node) ==
    IF node.type # "file" THEN 70 ELSE estimateNodeHeight(node.data.symbols)

\* the size without the room for the code preview
estimateNodeSizeNoBuffer(node) ==
    [width |-> estimateNodeSizeWidth(node)
                 - (IF node.type = "file" THEN codePreviewBuffer ELSE 0),
     height |-> estimateNodeSizeHeight(node)]

estimateNodeSize(node) ==
    [width |-> estimateNodeSizeWidth(node), height |-> estimateNodeSizeHeight(node)]

SymX == [name |-> "x", kind |-> "Function"]

EstimateSymbols == {SymMain, SymGraph, SymX}

EstimateSymbolLists ==
    UNION {[1..n -> EstimateSymbols] : n \in 0..MaxEstSymbols}

EstimateFilenames == {"models.py", "app.js", "", "a_filename_longer_than_twenty.lua"}

EstimateLabels == {"main", "", "a_label_of_more_than_twelve_chars"}

\* the nodes estimateNodeSize is given: file nodes and legacy symbol nodes
EstimateNodes ==
    {[id |-> "n", type |-> "file",
      data |-> [filename |-> f, symbols |-> ss, label |-> "", isExpanded |-> FALSE]] :
        f \in EstimateFilenames, ss \in EstimateSymbolLists}
    \cup
    {[id |-> "n", type |-> "symbol",
      data |-> [filename |-> "", symbols |-> <<>>, label |-> l, isExpanded |-> FALSE]] :
        l \in EstimateLabels}

\* a call estimateNodeSize(node)
Estimate(node) ==
    /\ estArgs' = <<node>>
    /\ estResult' = <<estimateNodeSize(node)>>
    /\ UNCHANGED notEstimate

NextEstimate == \E node \in EstimateNodes : Estimate(node)

SpecEstimate == Init /\ [][NextEstimate]_allVars

\* the node of the scenario: a file node named models.py without symbols
IsModelsPy(node) ==
    /\ node.type = "file"
    /\ node.data.filename = "models.py"
    /\ node.data.symbols = <<>>

\* C20 as stated: the estimate of the file node "models.py" without symbols
\* is width 680, height 66
EstimateModelsPy680 ==
    (estArgs # <<>> /\ IsModelsPy(estArgs[1]))
        => estResult[1] = [width |-> 680, height |-> 66]

\* C20 amended: the estimate of the file node "models.py" without symbols is
\* width 580 (280 + 300: the 9 characters give 192, below the floor of 280),
\* height 66
EstimateModelsPy580 ==
    (estArgs # <<>> /\ IsModelsPy(estArgs[1]))
        => estResult[1] = [width |-> 580, height |-> 66]

\* estimateNodeSize was called on the node of the scenario
EstimateModelsPyWitness ==
    /\ estArgs # <<>>
    /\ IsModelsPy(estArgs[1])
    /\ estResult # <<>>

----------------------------------------------------------------------------
(* The no-edge layout of a graph push, node by node *)

\* the positions of the nodes with id `id` in a node list
Occurrences(ns, id) == {i \in DOMAIN ns : ns[i].id = id}

\* the file nodes of a typed push, in push order
fileNodesOf(ns) == SelectSeq(ns, LAMBDA n : n.type = "file")

\* the row of the file nodes: the index-th file node is at
\* x = index * (max file-node width + gap), y = 0
FileRow(typed, out) ==
    \A i \in DOMAIN fileNodesOf(typed) :
        \E j \in DOMAIN out :
            /\ out[j].id = fileNodesOf(typed)[i].id
            /\ out[j].position =
                   [x |-> (i - 1) * (maxWidthFrom(fileNodesOf(typed), 1) + gridGap), y |-> 0]

\* every node of the push is in the output once, the non-file nodes below
\* the row of the file nodes
EachNodeOnce(typed, out) ==
    \A i \in DOMAIN typed :
        /\ Cardinality(Occurrences(out, typed[i].id)) = 1
        /\ typed[i].type # "file" =>
               \A j \in Occurrences(out, typed[i].id) : out[j].position.y > 0

\* C22: in the no-edge layout of a push with at least one file node, the
\* file nodes are in one row at x = index * (max file-node width + gap) and
\* every non-file node is placed below them, so that each node of the push
\* is in the displayed graph exactly once
GridKeepsEveryNode ==
    [][\A p \in PushSet :
          (HandleGraphData(p) /\ fileNodesOf(typedGraphNodes(p)) # <<>>)
              => (/\ FileRow(typedGraphNodes(p), nodes')
                  /\ EachNodeOnce(typedGraphNodes(p), nodes'))]_allVars

----------------------------------------------------------------------------
(* server.js: the code:request handler and its symbols lookup *)

\* the files snippets are asked of (absolute paths, so fullPath = filepath),
\* each of FileLines lines
SnippetFiles == {"f", "g"}
FileLines == 10

\* the symbol lists the editor posts to /api/symbols: a symbol with a
\* range that ends after the file, found by its qualified name only, and a
\* symbol without a range at the requested line
SymsRange == <<[name |-> "M.main", line |-> 4, end_line |-> 12]>>
SymsNoRange == <<[name |-> "main", line |-> 2, end_line |-> 2]>>
SymbolLists == {SymsRange, SymsNoRange}

\* an argument the request does not carry (JS undefined, falsy like 0)
Absent == 0

\* the arguments of the code:request calls of the model: no end line near
\* the start of the file, a usable end line, and an end line that is not
\* after the line, no context, near the end of the file, for a name no
\* symbol has
CodeArgs ==
    {[filepath |-> "f", line |-> 2, end_line |-> Absent, name |-> "main", context |-> 2],
     [filepath |-> "f", line |-> 2, end_line |-> 5, name |-> "main", context |-> 2],
     [filepath |-> "g", line |-> 9, end_line |-> 9, name |-> "other", context |-> Absent]}

NoAnswer == [status |-> "none", lines |-> <<>>]

\* lines.slice(startLine, endLine).map((text, i) => ({num: startLine + i + 1, text})):
\* the line numbers of the snippet
snippet(startLine, endLine) ==
    IF endLine > startLine THEN [i \in 1..(endLine - startLine) |-> startLine + i]
    ELSE <<>>

\* the window that starts at the requested line instead of ctx lines above
contextWindowFromLine(line, context) ==
    LET ctx == IF context = Absent THEN 5 ELSE context
    IN snippet(Max(0, line - 1), Min(FileLines, line + ctx))

\* const ctx = context || 5; startLine = Math.max(0, line - ctx - 1);
\* endLine = Math.min(lines.length, line + ctx)
contextWindow(line, context) ==
    LET ctx == IF context = Absent THEN 5 ELSE context
    IN snippet(Max(0, line - ctx - 1), Min(FileLines, line + ctx))

\* the range that is not cut at the end of the file
rangeWindowUnclamped(line, end_line) == snippet(Max(0, line - 1), end_line)

\* startLine = Math.max(0, line - 1); endLine = Math.min(lines.length, end_line)
rangeWindow(line, end_line) == snippet(Max(0, line - 1), Min(FileLines, end_line))

\* s.name === name || s.name.endsWith("." + name), for the qualifier of the model
nameMatches(s, name) == s.name = name \/ s.name = "M." \o name

\* findSymbolByLine: the first symbol at the line, else the first symbol of
\* the name, else null (the empty sequence)
findSymbolByLine(symbols, line, name) ==
    LET atLine == SelectSeq(symbols, LAMBDA s : s.line = line)
        ofName == SelectSeq(symbols, LAMBDA s : nameMatches(s, name))
    IN IF atLine # <<>> THEN <<atLine[1]>>
       ELSE IF ofName # <<>> THEN <<ofName[1]>>
       ELSE <<>>

\* the try branch after requestSymbols returned the symbols
lookedUp(args, symbols) ==
    LET symbol == findSymbolByLine(symbols, args.line, args.name)
    IN IF symbol # <<>> /\ symbol[1].end_line # Absent /\ symbol[1].end_line > symbol[1].line
       THEN [status |-> "ok", lines |-> rangeWindow(symbol[1].line, symbol[1].end_line)]
       ELSE [status |-> "ok", lines |-> contextWindow(args.line, args.context)]

\* the inner catch: requestSymbols threw (send rejected, or timeout)
lookupFailed(args) == [status |-> "ok", lines |-> contextWindow(args.line, args.context)]

\* symbolsCache.get(filepath)
cacheGet(cache, file) == (CHOOSE e \in cache : e[1] = file)[2]

\* the cache that is never found to hold the file
cacheHasNever(cache, file) == FALSE

\* symbolsCache.has(filepath) of requestSymbols
requestSymbolsCacheHit(cache, file) == cacheHas(cache, file)

\* the symbols request createPendingRequest and sendToNeovim leave behind;
\* posted: the editor has answered the command
newSymbolsRequest(file) ==
    [kind |-> "symbols", file |-> file, send |-> "running", promise |-> "pending",
     value |-> <<>>, timer |-> "armed", pc |-> "awaitSend", response |-> NoResponse,
     posted |-> FALSE]

\* end_line && end_line > line
usableEndLine(args) == args.end_line # Absent /\ args.end_line > args.line

\* the handler leaves call i with its answer: callback(answer)
answered(i, answer) ==
    codeRequests' = [codeRequests EXCEPT ![i].pc = "done", ![i].answer = answer]

\* socket "code:request" up to the await of fs.readFile
CodeRequest(args) ==
    /\ ~ crashed
    /\ Len(codeRequests) < MaxCodeRequests
    /\ codeRequests' = Append(codeRequests,
           [args |-> args, pc |-> "readFile", symId |-> UnknownId, answer |-> NoAnswer])
    /\ UNCHANGED serverVars
    /\ UNCHANGED notSnippet

\* readFile rejects: the outer catch answers with the error
ReadFileFails(i) ==
    /\ ~ crashed
    /\ codeRequests[i].pc = "readFile"
    /\ answered(i, [status |-> "error", lines |-> <<>>])
    /\ UNCHANGED serverVars
    /\ UNCHANGED notSnippet

\* readFile resolves: the handler runs to its answer or to the await of a
\* symbols request.  requestSymbols returns the cached symbols on a hit;
\* on a miss it creates the pending request and sends the command, which
\* rejects at once when no editor is registered
ReadFile(i) ==
    LET args == codeRequests[i].args
        file == args.filepath
        id == Len(requests) + 1
        S == [pendingRequests |-> pendingRequests \cup {id},
              requests |-> Append(requests, newSymbolsRequest(file))]
    IN /\ ~ crashed
       /\ codeRequests[i].pc = "readFile"
       /\ IF usableEndLine(args)
          THEN /\ answered(i, [status |-> "ok", lines |-> rangeWindow(args.line, args.end_line)])
               /\ UNCHANGED <<pendingRequests, requests>>
          ELSE IF requestSymbolsCacheHit(symbolsCache, file)
          THEN /\ answered(i, lookedUp(args, cacheGet(symbolsCache, file)))
               /\ UNCHANGED <<pendingRequests, requests>>
          ELSE /\ Len(requests) < MaxRequests
               /\ IF neovimSocket
                  THEN /\ SetSrv(S)
                       /\ codeRequests' = [codeRequests EXCEPT ![i].pc = "symbols", ![i].symId = id]
                  ELSE /\ SetSrv(catch([S EXCEPT !.requests[id].send = "failed"], id))
                       /\ codeRequests' = [codeRequests EXCEPT ![i].pc = "done", ![i].symId = id,
                                                               ![i].answer = lookupFailed(args)]
       /\ UNCHANGED <<neovimSocket, symbolsCache, crashed>>
       /\ UNCHANGED notSnippet

\* requestSymbols returned or threw: the handler goes on after its await
CodeResume(i) ==
    LET args == codeRequests[i].args
        response == requests[codeRequests[i].symId].response
    IN /\ ~ crashed
       /\ codeRequests[i].pc = "symbols"
       /\ response.status # "none"
       /\ IF response.status = "return"
          THEN answered(i, lookedUp(args, response.body))
          ELSE answered(i, lookupFailed(args))
       /\ UNCHANGED serverVars
       /\ UNCHANGED notSnippet

\* POST /api/symbols {request_id, filepath, symbols}: send_document_symbols
\* answers a command it was given, once, with the filepath of the command,
\* also when the request has timed out by then
PostSymbolsFile(id, file, symbols) ==
    /\ ~ crashed
    /\ requests[id].send \in {"delivered", "ok"}
    /\ requests[id].file = file
    /\ ~ requests[id].posted
    /\ symbolsCache' = cacheSet(symbolsCache, file, symbols)
    /\ SetSrv([resolvePendingRequest(Srv, id, symbols) EXCEPT !.requests[id].posted = TRUE])
    /\ UNCHANGED <<neovimSocket, crashed>>
    /\ UNCHANGED notServer

NextSnippet ==
    \/ Register
    \/ \E args \in CodeArgs : CodeRequest(args)
    \/ \E i \in DOMAIN codeRequests : ReadFileFails(i)
    \/ \E i \in DOMAIN codeRequests : ReadFile(i)
    \/ \E i \in DOMAIN codeRequests : CodeResume(i)
    \/ \E id \in DOMAIN requests : SendDelivered(id)
    \/ \E id \in DOMAIN requests : SendCloses(id)
    \/ \E id \in DOMAIN requests : SendFails(id)
    \/ \E id \in DOMAIN requests, file \in SnippetFiles, symbols \in SymbolLists :
           PostSymbolsFile(id, file, symbols)
    \/ \E id \in DOMAIN requests : TimeoutFires(id)

SpecSnippet == Init /\ [][NextSnippet]_allVars

\* a code:request call that needs the symbol range: the file was read and
\* the request carries no usable end line
NeedsSymbols(i) ==
    /\ codeRequests[i].pc = "readFile"
    /\ ~ usableEndLine(codeRequests[i].args)

\* call i was answered from the symbols the cache holds for its path,
\* nothing was sent and no pending request was created
AnsweredFromCache(i) ==
    /\ requests' = requests
    /\ pendingRequests' = pendingRequests
    /\ codeRequests'[i].pc = "done"
    /\ codeRequests'[i].answer =
           lookedUp(codeRequests[i].args,
                    cacheGet(symbolsCache, codeRequests[i].args.filepath))

\* C23: symbol lookups are cached per file path: the symbols response that
\* resolves a request puts its path in the cache, a path in the cache stays there, and a
\* code-snippet request that needs the symbol range of a path in the cache
\* is answered from the cache, without a request to the editor and without
\* a pending request
SymbolsCachedPerPath ==
    /\ [][\A id \in DOMAIN requests :
             (requests[id].promise = "pending" /\ requests'[id].promise = "resolved")
                 => <<requests[id].file, requests'[id].value>> \in symbolsCache']_allVars
    /\ [][\A file \in SnippetFiles :
             cacheHas(symbolsCache, file) => cacheHas(symbolsCache', file)]_allVars
    /\ [][\A i \in DOMAIN codeRequests :
             (/\ ReadFile(i)
              /\ NeedsSymbols(i)
              /\ cacheHas(symbolsCache, codeRequests[i].args.filepath))
                 => AnsweredFromCache(i)]_allVars

\* a code-snippet request without a usable end line was answered with the
\* symbol range the cache held, while the only symbols request of the run
\* had been answered before
SymbolsCachedPerPathWitness ==
    /\ Len(requests) = 1
    /\ requests[1].promise = "resolved"
    /\ cacheHas(symbolsCache, "f")
    /\ \E i \in DOMAIN codeRequests :
        /\ codeRequests[i].symId = UnknownId
        /\ codeRequests[i].pc = "done"
        /\ ~ usableEndLine(codeRequests[i].args)
        /\ codeRequests[i].args.filepath = "f"
        /\ codeRequests[i].answer = [status |-> "ok", lines |-> rangeWindow(4, 12)]

\* the symbols lookup of a call with these arguments finds no symbol with
\* a range in the symbol list
NoSymbolWithRange(args, symbols) ==
    LET symbol == findSymbolByLine(symbols, args.line, args.name)
    IN \/ symbol = <<>>
       \/ symbol[1].end_line = Absent
       \/ symbol[1].end_line <= symbol[1].line

\* the lines of the file from contextLines above the requested line to
\* contextLines below it, in order; a request without context asks for 5
ContextLinesOf(args) ==
    LET contextLines == IF args.context = Absent THEN 5 ELSE args.context
        lo == Max(1, args.line - contextLines)
        hi == Min(FileLines, args.line + contextLines)
    IN [k \in 1..(hi - lo + 1) |-> lo + k - 1]

\* call i is answered status ok with the context window
FallbackAnswer(i) ==
    /\ codeRequests'[i].pc = "done"
    /\ codeRequests'[i].answer =
           [status |-> "ok", lines |-> ContextLinesOf(codeRequests[i].args)]

----------------------------------------------------------------------------
(* lua/terreno.lua: setup *)

\* the option tables of the model: each of server_url, port and a key the
\* defaults do not have is absent or given; setup() and setup({}) are the
\* table without keys
OptionTable(url, port, theme) ==
    [k \in ((IF url = "absent" THEN {} ELSE {"server_url"})
            \cup (IF port = Absent THEN {} ELSE {"port"})
            \cup (IF theme = "absent" THEN {} ELSE {"theme"})) |->
        CASE k = "server_url" -> url
          [] k = "port" -> port
          [] OTHER -> theme]

OptionTables ==
    {OptionTable(url, port, theme) :
        url \in {"absent", "http://custom", "http://localhost"},
        port \in {Absent, 3000, 4000, 8080},
        theme \in {"absent", "dark"}}

\* vim.tbl_deep_extend("force", a, b) for tables without nested tables: a
\* new table with the keys of both, b's value where both have the key
tbl_deep_extend(a, b) ==
    [k \in DOMAIN a \cup DOMAIN b |-> IF k \in DOMAIN b THEN b[k] ELSE a[k]]

\* the options written into the defaults table, which config then names
setupConfigInPlace(defaults, opts) ==
    [default_config |-> tbl_deep_extend(defaults, opts),
     config |-> tbl_deep_extend(defaults, opts)]

\* M.config = vim.tbl_deep_extend("force", default_config, opts or {})
setupConfig(defaults, opts) ==
    [default_config |-> defaults, config |-> tbl_deep_extend(defaults, opts)]

\* M.setup(opts); started is what vim.fn.serverstart("terreno") returns
\* when M.server_name is not set yet ("" when the server cannot start);
\* register_socket posts to the server the new config names
Setup(opts, started) ==
    LET r == setupConfig(default_config, opts)
    IN /\ default_config' = r.default_config
       /\ config' = r.config
       /\ setupOpts' = <<opts>>
       /\ IF server_name = "nil"
          THEN /\ server_name' = started
               /\ registeredWith' =
                      IF started # ""
                      THEN <<[server_url |-> r.config.server_url, port |-> r.config.port]>>
                      ELSE registeredWith
          ELSE UNCHANGED <<server_name, registeredWith>>
       /\ UNCHANGED notPlugin

NextSetup == \E opts \in OptionTables, started \in {"", "terreno"} : Setup(opts, started)

SpecSetup == Init /\ [][NextSetup]_allVars

\* C25: after setup(opts) every key of opts has the value of opts in the
\* config and every other key has its default value; the defaults table is
\* as it was written, so that a setup without options gives the default
\* config again (server_url "http://localhost")
SetupMergesOverDefaults ==
    setupOpts # <<>> =>
        /\ DOMAIN config = DOMAIN DefaultConfig \cup DOMAIN setupOpts[1]
        /\ \A k \in DOMAIN setupOpts[1] : config[k] = setupOpts[1][k]
        /\ \A k \in DOMAIN DefaultConfig \ DOMAIN setupOpts[1] : config[k] = DefaultConfig[k]
        /\ default_config = DefaultConfig
        /\ DOMAIN setupOpts[1] = {} =>
               (config = DefaultConfig /\ config.server_url = "http://localhost")

\* setup({server_url = "http://custom"}) registered the socket with the
\* custom server, and a later setup() gave the default config
SetupMergesOverDefaultsWitness ==
    /\ registeredWith = <<[server_url |-> "http://custom", port |-> 3000]>>
    /\ setupOpts # <<>>
    /\ DOMAIN setupOpts[1] = {}
    /\ config.server_url = "http://localhost"

----------------------------------------------------------------------------
(* handleExpandCalls: findFreeY as a function of the start, the number of
   new nodes and the occupied ranges of the target column *)

\* the y of the source node
ScanStartYs == {0, 50, 150, 151, 300}

\* the number of new nodes of the expansion result
ScanCounts == {1, 2, 50}

\* the occupied ranges of the target column: none, a node at the start,
\* two nodes, and single nodes far below the source, which an expansion of
\* 50 nodes reaches on every attempt
ScanRangeLists ==
    {<<>>,
     <<[top |-> 150, bottom |-> 216]>>,
     <<[top |-> 0, bottom |-> 66], [top |-> 150, bottom |-> 268]>>,
     <<[top |-> 250, bottom |-> 316], [top |-> 400, bottom |-> 466]>>,
     <<[top |-> 4900, bottom |-> 4966]>>,
     <<[top |-> 5050, bottom |-> 5116]>>,
     <<[top |-> 5050, bottom |-> 5416]>>,
     <<[top |-> 150, bottom |-> 216], [top |-> 5050, bottom |-> 5416]>>}

\* a call findFreeY(startY, count) with these occupied ranges
Scan(startY, count, ranges) ==
    /\ scanArgs' = <<[startY |-> startY, count |-> count, ranges |-> ranges]>>
    /\ scanResult' = <<findFreeY(startY, count, ranges)>>
    /\ UNCHANGED notScan

NextScan ==
    \E startY \in ScanStartYs, count \in ScanCounts, ranges \in ScanRangeLists :
        Scan(startY, count, ranges)

SpecScan == Init /\ [][NextScan]_allVars

\* the y of attempt k of the scan (k = 0 is the start)
AttemptY(a, k) == a.startY + k * (symbolNodeHeight + callsVerticalGap)

\* every one of the 50 attempts of the scan collides with an occupied range
AllAttemptsCollide(a) ==
    \A k \in 0..(maxAttempts - 1) :
        hasCollision(AttemptY(a, k),
                     AttemptY(a, k) + a.count * (symbolNodeHeight + callsVerticalGap),
                     a.ranges)

\* C26 as stated: when all 50 attempts collide, the scan returns the last
\* attempted y, start y + 49 steps
ExhaustedScanAtLastAttempt ==
    (scanArgs # <<>> /\ AllAttemptsCollide(scanArgs[1]))
        => scanResult[1].y = AttemptY(scanArgs[1], maxAttempts - 1)

\* C26 amended: when all 50 attempts collide, the scan returns start y + 50
\* steps, one step below the last attempted y, a y it has not tested
ExhaustedScanPastLastAttempt ==
    (scanArgs # <<>> /\ AllAttemptsCollide(scanArgs[1]))
        => scanResult[1].y = AttemptY(scanArgs[1], maxAttempts)

\* a scan from y = 150 for 50 nodes was exhausted by one node far below
ExhaustedScanWitness ==
    /\ scanArgs # <<>>
    /\ AllAttemptsCollide(scanArgs[1])
    /\ scanArgs[1].startY = 150
    /\ scanResult # <<>>
    /\ scanResult[1].y = 5150

----------------------------------------------------------------------------
(* The nodes one merge adds, among themselves *)

\* the nodes r appended to ns are stacked: each starts at the y of the one
\* before plus that node's own estimated height plus the gap, so that the
\* estimated vertical intervals of any two of them are disjoint
StackedByOwnHeight(ns, r, gap) ==
    /\ \A i \in (Len(ns) + 1)..(Len(r.nodes) - 1) :
           Top(r.nodes[i + 1]) = Bottom(r.nodes[i]) + gap
    /\ \A i, j \in (Len(ns) + 1)..Len(r.nodes) :
           i # j => Disjoint(r.nodes[i], r.nodes[j])

\* C27: the nodes one expansion merge places are stacked by their own
\* estimated heights plus the gap, and their estimated vertical intervals
\* are pairwise disjoint, whatever their types and symbol counts
NewNodesStackedDisjoint ==
    /\ \A s \in SourceIds, N \in FragNodeLists :
        LET r == handleExpandFile(nodes, edges, s, N)
        IN ~ r.threw => StackedByOwnHeight(updatedNodes(nodes, s), r, fileVerticalGap)
    /\ \A s \in SourceIds, N \in FragNodeLists :
        LET r == handleExpandCalls(nodes, edges, s, N, <<>>)
        IN ~ r.threw => StackedByOwnHeight(nodes, r, callsVerticalGap)

----------------------------------------------------------------------------
(* lsp.lua: build_file_graph *)

\* the file of the current buffer and the files the import scan may name
\* (the current file among them)
MainFile == "main.lua"
ImportFiles == {"main.lua", "x.lua", "y.lua"}

\* the imported_files lists of the model
ImportLists == UNION {[1..n -> ImportFiles] : n \in 0..MaxImports}

\* what get_file_symbols calls back with: no symbol, one, or two
FileSymbolLists == {<<>>, <<SymMain>>, <<SymMain, SymGraph>>}

\* all_files = {filepath} followed by the imported files not seen before
RECURSIVE dedupFiles(_, _, _)
dedupFiles(files, imported, i) ==
    IF i > Len(imported) THEN files
    ELSE IF \E k \in DOMAIN files : files[k] = imported[i]
    THEN dedupFiles(files, imported, i + 1)
    ELSE dedupFiles(Append(files, imported[i]), imported, i + 1)

\* the node of a file with symbols
fileNode(file, symbols) ==
    [id |-> file, type |-> "file",
     data |-> [filename |-> file, symbols |-> symbols, label |-> "", isExpanded |-> FALSE]]

\* if file ~= filepath then table.insert(edges, {source = filepath, target = file})
importEdges(file) == IF file # MainFile THEN <<MkEdge(MainFile, file)>> ELSE <<>>

\* build_file_graph with no LSP client attached: callback({nodes = {}, edges = {}})
BuildFileGraphNoClient ==
    /\ awaiting = {}
    /\ all_files' = <<>>
    /\ graphNodes' = <<>>
    /\ graphEdges' = <<>>
    /\ fileGraph' = <<[nodes |-> <<>>, edges |-> <<>>]>>
    /\ UNCHANGED awaiting
    /\ UNCHANGED notBuild

\* build_file_graph up to the callback of follow_imports_via_lsp: a symbol
\* lookup is started for every file of all_files
BuildFileGraph(imported_files) ==
    /\ awaiting = {}
    /\ all_files' = dedupFiles(<<MainFile>>, imported_files, 1)
    /\ awaiting' = {all_files'[k] : k \in DOMAIN all_files'}
    /\ graphNodes' = <<>>
    /\ graphEdges' = <<>>
    /\ fileGraph' = <<>>
    /\ UNCHANGED notBuild

\* the callback of get_file_symbols for one file: a file without symbols is
\* skipped; the last callback hands the graph over
FileSymbols(file, symbols) ==
    /\ file \in awaiting
    /\ awaiting' = awaiting \ {file}
    /\ graphNodes' = IF symbols = <<>> THEN graphNodes
                     ELSE Append(graphNodes, fileNode(file, symbols))
    /\ graphEdges' = IF symbols = <<>> THEN graphEdges
                     ELSE graphEdges \o importEdges(file)
    /\ fileGraph' = IF awaiting' = {}
                    THEN <<[nodes |-> graphNodes', edges |-> graphEdges']>>
                    ELSE fileGraph
    /\ UNCHANGED all_files
    /\ UNCHANGED notBuild

NextBuild ==
    \/ BuildFileGraphNoClient
    \/ \E imported_files \in ImportLists : BuildFileGraph(imported_files)
    \/ \E file \in ImportFiles, symbols \in FileSymbolLists : FileSymbols(file, symbols)

SpecBuild == Init /\ [][NextBuild]_allVars

\* C28: the graph build_file_graph hands over has no dangling edge: the
\* source and the target of every edge are ids of its nodes, whatever the
\* symbol lookups of the files returned
FileGraphNoDanglingEdge ==
    fileGraph # <<>> =>
        \A i \in DOMAIN fileGraph[1].edges :
            /\ fileGraph[1].edges[i].source \in NodeIds(fileGraph[1].nodes)
            /\ fileGraph[1].edges[i].target \in NodeIds(fileGraph[1].nodes)

----------------------------------------------------------------------------
(* lsp.lua: expand_node, and handleExpandCalls on its result *)

\* the ids (filepath:line) of the functions of the project the call
\* hierarchy may name as call targets
CallTargets == {"a", "b", "a-a"}

\* the outgoing calls of the expanded function, as lists of target ids
CallLists == UNION {[1..n -> CallTargets] : n \in 0..MaxCalls}

\* the node of a call target: no type, position (0,0) for the client to set
callNode(target_id) == [id |-> target_id, type |-> NoType, data |-> DataSymbol]

\* the edge of every call, the call of the function to itself included
callEdgeAlways(source_id, target_id) == <<MkEdge(source_id, target_id)>>

\* if target_id ~= source_id then table.insert(new_edges, {...})
callEdge(source_id, target_id) ==
    IF target_id # source_id THEN <<MkEdge(source_id, target_id)>> ELSE <<>>

\* the loop over the calls from call number i on
RECURSIVE callEdgesFrom(_, _, _)
callEdgesFrom(source_id, calls, i) ==
    IF i > Len(calls) THEN <<>>
    ELSE callEdge(source_id, calls[i]) \o callEdgesFrom(source_id, calls, i + 1)

\* new_nodes and new_edges of expand_node; err: prepareCallHierarchy
\* failed or found no item
expand_node(source_id, calls, err) ==
    IF err THEN [nodes |-> <<>>, edges |-> <<>>]
    ELSE [nodes |-> [i \in DOMAIN calls |-> callNode(calls[i])],
          edges |-> callEdgesFrom(source_id, calls, 1)]

\* expand_node up to send_expand_result: the result is on its way to the
\* client (through /api/expand-result and the answer of /api/expand)
ExpandNode(source_id, calls, err) ==
    /\ error = "none"
    /\ expandInFlight = <<>>
    /\ source_id \in NodeIds(nodes)
    /\ expandInFlight' =
           <<[sourceId |-> source_id, calls |-> IF err THEN <<>> ELSE calls,
              result |-> expand_node(source_id, calls, err)]>>
    /\ UNCHANGED expandMerged
    /\ UNCHANGED vars
    /\ UNCHANGED notExpand

\* the client merges the result: handleExpandCalls(sourceId, nodes, edges)
HandleExpandResult ==
    /\ error = "none"
    /\ expandInFlight # <<>>
    /\ LET x == expandInFlight[1]
           r == handleExpandCalls(nodes, edges, x.sourceId, x.result.nodes, x.result.edges)
       IN /\ nodes' = r.nodes
          /\ edges' = r.edges
          /\ error' = IF r.threw THEN "TypeError" ELSE error
          /\ Len(r.nodes) <= MaxNodes
          /\ Len(r.edges) <= MaxEdges
    /\ expandMerged' = expandInFlight
    /\ expandInFlight' = <<>>
    /\ UNCHANGED notExpand

NextExpand ==
    \/ \E p \in PushSet : HandleGraphData(p)
    \/ \E source_id \in SourceIds, calls \in CallLists, err \in BOOLEAN :
           ExpandNode(source_id, calls, err)
    \/ HandleExpandResult

SpecExpand == Init /\ [][NextExpand]_allVars

\* the provider reported that the expanded function calls itself
SelfCall(x) == \E i \in DOMAIN x.calls : x.calls[i] = x.sourceId

\* the edge (s, s) is in the edge list
HasSelfLoop(es, s) == \E i \in DOMAIN es : es[i].source = s /\ es[i].target = s

\* C29 as stated: when the provider reports that the expanded function
\* calls itself, the expansion result contains the edge (s,s) and the merge
\* stores it in the graph
SelfLoopStored ==
    /\ [] (\A i \in DOMAIN expandInFlight :
              SelfCall(expandInFlight[i])
                  => HasSelfLoop(expandInFlight[i].result.edges, expandInFlight[i].sourceId))
    /\ [][(HandleExpandResult /\ SelfCall(expandInFlight[1]) /\ error' = "none")
              => HasSelfLoop(edges', expandInFlight[1].sourceId)]_allVars

\* C29 amended: when the provider reports that the expanded function calls
\* itself, the expansion result has the node of s but not the edge (s,s),
\* and the merge stores no edge (s,s) in the graph
SelfLoopFiltered ==
    /\ [] (\A i \in DOMAIN expandInFlight :
              SelfCall(expandInFlight[i])
                  => /\ expandInFlight[i].sourceId \in NodeIds(expandInFlight[i].result.nodes)
                     /\ ~ HasSelfLoop(expandInFlight[i].result.edges, expandInFlight[i].sourceId))
    /\ [][(HandleExpandResult /\ SelfCall(expandInFlight[1]))
              => ~ HasSelfLoop(edges', expandInFlight[1].sourceId)]_allVars

\* the client merged the result of a function that calls itself and "b":
\* the graph has the edge to "b"
SelfLoopFilteredWitness ==
    /\ expandMerged # <<>>
    /\ expandMerged[1].sourceId = "a"
    /\ expandMerged[1].calls = <<"a", "b">>
    /\ error = "none"
    /\ \E i \in DOMAIN edges : edges[i].source = "a" /\ edges[i].target = "b"
    /\ "b" \in NodeIds(nodes)

----------------------------------------------------------------------------
(* server.js: the graph stored for new clients and the graph broadcasts *)

\* the working directories the editor registers with
Cwds == {"/p", "/q"}

\* the bodies of /api/graph and the payloads of graph:update
GraphBodies == {"g1", "g2"}

\* the browsers
Clients == 1..MaxClients

\* io.emit("graph:data", graph): every connected browser receives it
emitGraphData(graph) == [c \in DOMAIN clientGraphs |-> <<graph>>]

\* POST /api/register {socket, cwd}
GraphRegister(cwd) ==
    /\ ~ crashed
    /\ neovimSocket' = TRUE
    /\ neovimCwd' = cwd
    /\ UNCHANGED <<latestGraph, lastBroadcast, clientGraphs>>
    /\ UNCHANGED <<pendingRequests, requests, symbolsCache, crashed>>
    /\ UNCHANGED notGraph

\* POST /api/graph: graph.cwd = neovimCwd; latestGraph = graph; io.emit
PostGraph(body) ==
    LET graph == [body |-> body, cwd |-> neovimCwd]
    IN /\ ~ crashed
       /\ latestGraph' = <<graph>>
       /\ lastBroadcast' = <<graph>>
       /\ clientGraphs' = emitGraphData(graph)
       /\ UNCHANGED neovimCwd
       /\ UNCHANGED serverVars
       /\ UNCHANGED notGraph

\* io.on("connection"): the new browser is sent latestGraph if there is one
Connect ==
    /\ ~ crashed
    /\ Len(clientGraphs) < MaxClients
    /\ clientGraphs' = Append(clientGraphs, latestGraph)
    /\ UNCHANGED <<neovimCwd, latestGraph, lastBroadcast>>
    /\ UNCHANGED serverVars
    /\ UNCHANGED notGraph

\* the browser that connected last disconnects
Disconnect ==
    /\ ~ crashed
    /\ clientGraphs # <<>>
    /\ clientGraphs' = SubSeq(clientGraphs, 1, Len(clientGraphs) - 1)
    /\ UNCHANGED <<neovimCwd, latestGraph, lastBroadcast>>
    /\ UNCHANGED serverVars
    /\ UNCHANGED notGraph

\* socket "graph:update" from a connected socket: io.emit("graph:data", data)
GraphUpdate(c, body, cwd) ==
    LET data == [body |-> body, cwd |-> cwd]
    IN /\ ~ crashed
       /\ c \in DOMAIN clientGraphs
       /\ lastBroadcast' = <<data>>
       /\ clientGraphs' = emitGraphData(data)
       /\ UNCHANGED <<neovimCwd, latestGraph>>
       /\ UNCHANGED serverVars
       /\ UNCHANGED notGraph

NextGraph ==
    \/ \E cwd \in Cwds : GraphRegister(cwd)
    \/ \E body \in GraphBodies : PostGraph(body)
    \/ Connect
    \/ Disconnect
    \/ \E c \in Clients, body \in GraphBodies, cwd \in Cwds \cup {"null"} :
           GraphUpdate(c, body, cwd)

SpecGraph == Init /\ [][NextGraph]_allVars

\* C30: in every reachable server state the graph stored for new clients
\* is the graph of the last broadcast, so that a browser that connects is
\* sent the graph the connected browsers display
StoredGraphIsLastBroadcast ==
    /\ latestGraph = lastBroadcast
    /\ \A c \in DOMAIN clientGraphs : clientGraphs[c] = latestGraph

----------------------------------------------------------------------------
(* The :Terreno command (plugin/terreno.lua) *)

\* args[1] of a command line: a key of subcommands, another word, or none
Subcommands == {"buffer", "workspace", "calls"}

Subcmds == Subcommands \cup {"graph", "nil"}

\* vim.v.servername
VServername == "nvim.sock"

\* `if not vim.g.terreno_browser_opened`, without the test
shouldOpenBrowserAlways(opened) == TRUE

\* `if not vim.g.terreno_browser_opened`
shouldOpenBrowser(opened) == ~ opened

\* the command with_server leaves waiting for the callback of start_server
withServer(subcmd) == [subcmd |-> subcmd, pc |-> "start_server", trace |-> <<>>]

\* :Terreno <subcmd>: a key of subcommands goes through with_server, which
\* calls terreno.start_server(function(port) ... end); anything else is
\* notified and nothing runs
TerrenoCommand(subcmd) ==
    /\ Len(commands) < MaxCommands
    /\ commands' = Append(commands,
                     IF subcmd \in Subcommands
                     THEN withServer(subcmd)
                     ELSE [subcmd |-> subcmd, pc |-> "notified", trace |-> <<>>])
    /\ UNCHANGED <<terreno_browser_opened, browserOpens>>
    /\ UNCHANGED setupVars
    /\ UNCHANGED notCommand

\* start_server calls back with the port: the callback of with_server sets
\* terreno.server_name when it is not set and calls
\* terreno.register_socket(function() ... end)
StartServerCallback(i) ==
    /\ i \in DOMAIN commands
    /\ commands[i].pc = "start_server"
    /\ commands' = [commands EXCEPT ![i].pc = "register_socket",
                                    ![i].trace = Append(@, "start_server")]
    /\ server_name' = IF server_name = "nil" THEN VServername ELSE server_name
    /\ UNCHANGED <<default_config, config, registeredWith, setupOpts>>
    /\ UNCHANGED <<terreno_browser_opened, browserOpens>>
    /\ UNCHANGED notCommand

\* register_socket calls back: the browser is opened on the first run,
\* then the subcommand's action runs
RegisterSocketCallback(i) ==
    LET open == shouldOpenBrowser(terreno_browser_opened)
    IN /\ i \in DOMAIN commands
       /\ commands[i].pc = "register_socket"
       /\ terreno_browser_opened' = (open \/ terreno_browser_opened)
       /\ browserOpens' = IF open THEN browserOpens + 1 ELSE browserOpens
       /\ commands' = [commands EXCEPT
              ![i].pc = "done",
              ![i].trace = @ \o (IF open THEN <<"register_socket", "open_browser", "action">>
                                         ELSE <<"register_socket", "action">>)]
       /\ UNCHANGED setupVars
       /\ UNCHANGED notCommand

NextCommand ==
    \/ \E subcmd \in Subcmds : TerrenoCommand(subcmd)
    \/ \E i \in 1..MaxCommands : StartServerCallback(i)
    \/ \E i \in 1..MaxCommands : RegisterSocketCallback(i)

SpecCommand == Init /\ [][NextCommand]_allVars

\* the positions of event e in a trace
PositionsOf(trace, e) == {k \in DOMAIN trace : trace[k] = e}

\* how many commands ran their action
ActionsRun == Cardinality({i \in DOMAIN commands : PositionsOf(commands[i].trace, "action") # {}})

\* C31: the action of every :Terreno subcommand runs only after the
\* callback of start_server and then the callback of register_socket have
\* fired for it, in that order; only subcommands run an action; and
\* open_browser is called at most once in the session, however many
\* commands were issued
ActionAfterServerAndSocket ==
    /\ \A i \in DOMAIN commands :
         LET t == commands[i].trace
         IN /\ \A k \in PositionsOf(t, "action") :
                  \E a \in PositionsOf(t, "start_server"), b \in PositionsOf(t, "register_socket") :
                      a < b /\ b < k
            /\ PositionsOf(t, "action") # {} => commands[i].subcmd \in Subcommands
    /\ browserOpens <= 1
    /\ browserOpens = 1 <=> ActionsRun >= 1

\* two commands ran their actions and the browser was opened for the first
ActionAfterServerAndSocketWitness ==
    /\ ActionsRun = MaxCommands
    /\ browserOpens = 1
    /\ server_name = VServername

----------------------------------------------------------------------------
(* build_call_graph (lua/terreno/lsp.lua) under send_calls *)

\* call hierarchy items, named by the id add_node gives them
\* (name .. "_" .. line)
CallItems == {"a", "b", "c"}

\* the item prepare_call_hierarchy found at the cursor
RootItem == "a"

\* what callHierarchy/outgoingCalls answers for each item: no calls at all,
\* a chain, a cycle through all items, direct recursion besides a call, the
\* same callee twice and a callee reached on two paths
CallRelations ==
    { [a |-> <<>>, b |-> <<>>, c |-> <<>>],
      [a |-> <<"b">>, b |-> <<"c">>, c |-> <<>>],
      [a |-> <<"b">>, b |-> <<"c">>, c |-> <<"a">>],
      [a |-> <<"a", "b">>, b |-> <<"b">>, c |-> <<>>],
      [a |-> <<"b", "b">>, b |-> <<"a">>, c |-> <<>>],
      [a |-> <<"b", "c">>, b |-> <<"c">>, c |-> <<"b">>] }

\* the locals of one build_call_graph call that add_node works on
CallGraph ==
    [nodes |-> callNodes, edges |-> callEdges, visited |-> visited,
     pending |-> pending, outstanding |-> outstanding, requested |-> requested]

\* `if visited[id] then`, without the test
alreadyVisitedNever(seen, id) == FALSE

\* `if visited[id] then`
alreadyVisited(seen, id) == id \in seen

\* `if level < depth then`
belowDepth(level, limit) == level < limit

\* the edge add_node inserts when it has a parent_id ("nil": none)
parentEdge(parent_id, id) ==
    IF parent_id # "nil" THEN <<[source |-> parent_id, target |-> id]>> ELSE <<>>

\* add_node(call_item, level, parent_id) on the locals g: a visited id
\* only gets its edge; a new id is marked, gets node and edge, and below
\* the depth limit pending is incremented and get_outgoing_calls requested
add_node(g, id, level, parent_id, limit) ==
    IF alreadyVisited(g.visited, id)
    THEN [g EXCEPT !.edges = @ \o parentEdge(parent_id, id)]
    ELSE LET g1 == [g EXCEPT
                      !.visited = @ \cup {id},
                      !.nodes = Append(@, [id |-> id, x |-> level * 250, y |-> Len(g.nodes) * 80]),
                      !.edges = @ \o parentEdge(parent_id, id)]
         IN IF belowDepth(level, limit)
            THEN [g1 EXCEPT !.pending = @ + 1,
                            !.outstanding = @ \cup {[id |-> id, level |-> level]},
                            !.requested = Append(@, [id |-> id, level |-> level])]
            ELSE g1

RECURSIVE addCalls(_, _, _, _, _, _)
\* for _, call in ipairs(calls) do add_node(call.to, level + 1, id) end
addCalls(g, calls, i, level, id, limit) ==
    IF i > Len(calls) THEN g
    ELSE addCalls(add_node(g, calls[i], level + 1, id, limit), calls, i + 1, level, id, limit)

\* the completion callback send_calls gives: nodes is never empty here, so
\* every call of it sends the graph (M.send_graph)
SetCalls(g, calledBack) ==
    /\ callNodes' = g.nodes
    /\ callEdges' = g.edges
    /\ visited' = g.visited
    /\ pending' = g.pending
    /\ outstanding' = g.outstanding
    /\ requested' = g.requested
    /\ callbacks' = IF calledBack THEN callbacks + 1 ELSE callbacks
    /\ graphsSent' = IF calledBack /\ Len(g.nodes) # 0 THEN graphsSent + 1 ELSE graphsSent

\* send_calls(depth) with an item at the cursor: build_call_graph(item,
\* depth, callback) runs add_node(item, 0, nil) and defers the check of
\* pending by 100 ms
BuildCallGraph(relation, limit) ==
    /\ deferred = "none"
    /\ depth' = limit
    /\ callsOf' = <<relation>>
    /\ SetCalls(add_node(CallGraph, RootItem, 0, "nil", limit), FALSE)
    /\ deferred' = "armed"
    /\ UNCHANGED notCalls

\* the callback of get_outgoing_calls for request r: calls is the answer of
\* the language server ({} on err or without result); every callee goes
\* through add_node, then pending is decremented and the completion
\* callback called when it is 0
OutgoingCalls(r, err) ==
    LET calls == IF err THEN <<>> ELSE callsOf[1][r.id]
        g == addCalls([CallGraph EXCEPT !.outstanding = @ \ {r}], calls, 1, r.level, r.id, depth)
        g2 == [g EXCEPT !.pending = @ - 1]
    IN /\ r \in outstanding
       /\ SetCalls(g2, g2.pending = 0)
       /\ UNCHANGED <<depth, callsOf, deferred>>
       /\ UNCHANGED notCalls

\* the function given to vim.defer_fn(..., 100)
DeferredCheck ==
    /\ deferred = "armed"
    /\ deferred' = "fired"
    /\ SetCalls(CallGraph, pending = 0)
    /\ UNCHANGED <<depth, callsOf>>
    /\ UNCHANGED notCalls

CallRequests == [id : CallItems, level : 0..MaxDepth]

NextCalls ==
    \/ \E relation \in CallRelations, limit \in 0..MaxDepth : BuildCallGraph(relation, limit)
    \/ \E r \in CallRequests, err \in BOOLEAN : OutgoingCalls(r, err)
    \/ DeferredCheck

SpecCalls == Init /\ [][NextCalls]_allVars

\* every outgoing-calls request is answered and the deferred function runs
SpecCallsFair ==
    /\ SpecCalls
    /\ \A r \in CallRequests : WF_allVars(OutgoingCalls(r, FALSE))
    /\ WF_allVars(DeferredCheck)

\* every request answered and the deferred check done
CallGraphSettled == deferred = "fired" /\ outstanding = {}

\* C32: build_call_graph calls its completion callback exactly once per
\* call, whenever the answers arrive relative to the deferred check: never
\* more than once, and once when all answers and the check are through, so
\* that one :Terreno calls sends one graph
CallbackExactlyOnce ==
    /\ callbacks <= 1
    /\ graphsSent <= 1
    /\ CallGraphSettled => (callbacks = 1 /\ graphsSent = 1)

\* ids of the outgoing-calls requests made so far, in order
RequestedIds == [k \in DOMAIN requested |-> requested[k].id]

\* no id occurs twice in a list
NoDuplicates(ids) == \A j, k \in DOMAIN ids : ids[j] = ids[k] => j = k

\* C33: build_call_graph requests the outgoing calls of a node id at most
\* once and never of a node at the depth limit, pending counts the
\* requests not answered yet, and for every call relation, cyclic or not,
\* once every request is answered pending is back at 0 and the traversal
\* has completed (the completion callback was called)
TraversalCompletes ==
    /\ [](/\ NoDuplicates(RequestedIds)
          /\ \A k \in DOMAIN requested : requested[k].level < depth
          /\ pending = Cardinality(outstanding)
          /\ Len(requested) <= Cardinality(CallItems))
    /\ (deferred = "armed") ~> (pending = 0 /\ outstanding = {} /\ callbacks >= 1)

\* a cyclic relation was walked to the depth limit: the root was requested
\* once though a callee calls it again, the node at the limit was not
\* requested, and everything is answered
TraversalCompletesWitness ==
    /\ depth = MaxDepth
    /\ callsOf = <<[a |-> <<"b">>, b |-> <<"c">>, c |-> <<"a">>]>>
    /\ visited = CallItems
    /\ Len(requested) = MaxDepth
    /\ pending = 0
    /\ callbacks >= 1

----------------------------------------------------------------------------
(* expand_file_imports (lua/terreno/lsp.lua) *)

\* what one textDocument/definition request answers: an error, a file
\* outside the project, or a project file
DefinitionAnswers == {"err", "/usr/lib/z.lua"} \cup ImportFiles

\* is_project_file(def_path, cwd)
is_project_file(def_path) == def_path \in ImportFiles

\* the locals of expand_file_imports and follow_imports_via_lsp
Imports ==
    [definitionsPending |-> definitionsPending, started |-> followStarted,
     found_files |-> found_files, lookups |-> lookups,
     lookupsPending |-> lookupsPending, nodes |-> importNodes, results |-> expandResults]

SetImports(s) ==
    /\ definitionsPending' = s.definitionsPending
    /\ followStarted' = s.started
    /\ found_files' = s.found_files
    /\ lookups' = s.lookups
    /\ lookupsPending' = s.lookupsPending
    /\ importNodes' = s.nodes
    /\ expandResults' = s.results

\* M.send_expand_result(request_id, nodes, {})
send_expand_result(s, resultNodes) == [s EXCEPT !.results = Append(@, resultNodes)]

\* `if pending == 0 then send_expand_result(...)` of the get_file_symbols
\* callback, sending whatever pending is
sendIfDoneAlways(s) == send_expand_result(s, s.nodes)

\* `if pending == 0 then send_expand_result(...)` of the get_file_symbols
\* callback
sendIfDone(s) == IF s.lookupsPending = 0 THEN send_expand_result(s, s.nodes) ELSE s

\* the lookups get_file_symbols starts for the imported files, each
\* deferred by 50 ms
startedLookups(imported_files) ==
    {[file |-> imported_files[k], stage |-> "deferred"] : k \in DOMAIN imported_files}

\* the callback expand_file_imports gives to follow_imports_via_lsp: no
\* imported file sends the empty result, else get_file_symbols is called
\* for every file
importsFollowed(s, imported_files) ==
    LET s1 == [s EXCEPT !.lookupsPending = Len(imported_files), !.nodes = <<>>]
    IN IF Len(imported_files) = 0
       THEN send_expand_result(s1, <<>>)
       ELSE [s1 EXCEPT !.lookups = startedLookups(imported_files)]

\* finish() of follow_imports_via_lsp
finish(s) ==
    IF s.started /\ s.definitionsPending = 0 THEN importsFollowed(s, s.found_files) ELSE s

\* the callback expand_file_imports gives to get_file_symbols for file
symbolsCallback(s, file, symbols) ==
    LET s1 == [s EXCEPT !.lookupsPending = @ - 1]
    IN IF Len(symbols) = 0
       THEN sendIfDone(s1)
       ELSE sendIfDone([s1 EXCEPT !.nodes = Append(@, fileNode(file, symbols))])

\* M.expand_file_imports(filepath, request_id): the buffer is loaded and
\* the rest deferred by 100 ms; client: an LSP client is attached by then;
\* words: the identifiers follow_imports_via_lsp finds in the first lines
ExpandFileImports(client, words) ==
    /\ importsPc = "idle"
    /\ importsPc' = "deferred"
    /\ importsInput' = <<[client |-> client, words |-> words]>>
    /\ UNCHANGED <<definitionsPending, followStarted, found_files, lookups, lookupsPending,
                   importNodes, expandResults>>
    /\ UNCHANGED notImports

\* the function deferred by expand_file_imports: without a client the
\* empty result is sent; else follow_imports_via_lsp requests the
\* definition of every identifier and calls back at once when there is none
ImportsDeferred ==
    LET in == importsInput[1]
        s1 == [Imports EXCEPT !.definitionsPending = in.words, !.started = TRUE]
    IN /\ importsPc = "deferred"
       /\ importsPc' = "running"
       /\ IF ~ in.client
          THEN SetImports(send_expand_result(Imports, <<>>))
          ELSE IF in.words = 0
          THEN SetImports(importsFollowed(s1, <<>>))
          ELSE SetImports(s1)
       /\ UNCHANGED importsInput
       /\ UNCHANGED notImports

\* the handler of one textDocument/definition request
DefinitionAnswer(def) ==
    LET new == is_project_file(def) /\ ~ \E k \in DOMAIN found_files : found_files[k] = def
        s1 == [Imports EXCEPT !.definitionsPending = @ - 1,
                              !.found_files = IF new THEN Append(@, def) ELSE @]
    IN /\ importsPc = "running"
       /\ definitionsPending > 0
       /\ SetImports(finish(s1))
       /\ UNCHANGED <<importsPc, importsInput>>
       /\ UNCHANGED notImports

\* the function get_file_symbols defers by 50 ms: without a client for the
\* file it calls back with {}, else it requests the document symbols
FileSymbolsDeferred(file, client) ==
    LET l == [file |-> file, stage |-> "deferred"]
        s1 == [Imports EXCEPT !.lookups = @ \ {l}]
    IN /\ l \in lookups
       /\ IF client
          THEN SetImports([s1 EXCEPT !.lookups = @ \cup {[file |-> file, stage |-> "requested"]}])
          ELSE SetImports(symbolsCallback(s1, file, <<>>))
       /\ UNCHANGED <<importsPc, importsInput>>
       /\ UNCHANGED notImports

\* the handler of textDocument/documentSymbol in get_file_symbols: symbols
\* stays {} on err
FileSymbolsAnswer(file, symbols, err) ==
    LET l == [file |-> file, stage |-> "requested"]
        s1 == [Imports EXCEPT !.lookups = @ \ {l}]
    IN /\ l \in lookups
       /\ SetImports(symbolsCallback(s1, file, IF err THEN <<>> ELSE symbols))
       /\ UNCHANGED <<importsPc, importsInput>>
       /\ UNCHANGED notImports

NextImports ==
    \/ \E client \in BOOLEAN, words \in 0..MaxImports : ExpandFileImports(client, words)
    \/ ImportsDeferred
    \/ \E def \in DefinitionAnswers : DefinitionAnswer(def)
    \/ \E file \in ImportFiles, client \in BOOLEAN : FileSymbolsDeferred(file, client)
    \/ \E file \in ImportFiles, symbols \in FileSymbolLists, err \in BOOLEAN :
           FileSymbolsAnswer(file, symbols, err)

SpecImports == Init /\ [][NextImports]_allVars

\* nothing of the request is outstanding any more
ImportsSettled == importsPc = "running" /\ definitionsPending = 0 /\ lookups = {}

\* C34: for one request id expand_file_imports sends exactly one expand
\* result on every path (no client, no imports, all files empty, some
\* empty) and for every order of the symbol lookups: never a second one,
\* one when nothing is outstanding, and the one it sends only when every
\* definition request and every lookup has called back
ExpandResultOnce ==
    /\ [](/\ Len(expandResults) <= 1
          /\ ImportsSettled => Len(expandResults) = 1)
    /\ [][Len(expandResults') > Len(expandResults) =>
            (definitionsPending' = 0 /\ lookups' = {} /\ lookupsPending' = 0)]_allVars

\* two files were looked up, one of them empty, and the result holds the
\* node of the other
ExpandResultOnceWitness ==
    /\ Len(found_files) = 2
    /\ lookups = {}
    /\ Len(expandResults) = 1
    /\ Len(expandResults[1]) = 1

----------------------------------------------------------------------------
(* The highlighted-files overlay, hover by hover *)

\* handleSymbolHover(nodeId, sym, true), the pointer entering a symbol row
\* of node i after it left the row it was on: without filepath nothing
\* happens, else fetchReferences is called for this hover
HoverEnter(i) ==
    /\ error = "none"
    /\ i \in DOMAIN nodes
    /\ pointer = 0
    /\ hoverCount < MaxHovers
    /\ nodes[i].data.symbols # <<>>
    /\ hoverCount' = hoverCount + 1
    /\ pointer' = hoverCount + 1
    /\ hoverRequests' = IF hasFilepath(nodes[i])
                        THEN hoverRequests \cup {hoverCount + 1}
                        ELSE hoverRequests
    /\ UNCHANGED <<overlayOf, highlightedFiles, refsInFlight>>
    /\ UNCHANGED vars
    /\ UNCHANGED notOverlay

\* handleSymbolHover(nodeId, sym, false), the pointer leaving the row:
\* setHighlightedFiles(new Set())
HoverLeave ==
    /\ error = "none"
    /\ pointer # 0
    /\ pointer' = 0
    /\ highlightedFiles' = {}
    /\ overlayOf' = 0
    /\ UNCHANGED <<hoverCount, hoverRequests, refsInFlight>>
    /\ UNCHANGED vars
    /\ UNCHANGED notOverlay

\* the then-callback of hover h: POST /api/references answers
\* {status: "ok", files} (files: [] when the editor did not answer), and
\* setHighlightedFiles(new Set(result.files)) runs
HoverResponse(h, files) ==
    /\ error = "none"
    /\ h \in hoverRequests
    /\ hoverRequests' = hoverRequests \ {h}
    /\ highlightedFiles' = files
    /\ overlayOf' = h
    /\ UNCHANGED <<pointer, hoverCount, refsInFlight>>
    /\ UNCHANGED vars
    /\ UNCHANGED notOverlay

\* fetch rejects for hover h: the catch logs
HoverFailed(h) ==
    /\ error = "none"
    /\ h \in hoverRequests
    /\ hoverRequests' = hoverRequests \ {h}
    /\ UNCHANGED <<pointer, hoverCount, overlayOf, highlightedFiles, refsInFlight>>
    /\ UNCHANGED vars
    /\ UNCHANGED notOverlay

NextOverlay ==
    \/ \E p \in PushSet : HandleGraphData(p)
    \/ \E i \in 1..MaxNodes : HoverEnter(i)
    \/ HoverLeave
    \/ \E h \in 1..MaxHovers, F \in RefFileSets : HoverResponse(h, F)
    \/ \E h \in 1..MaxHovers : HoverFailed(h)

SpecOverlay == Init /\ [][NextOverlay]_allVars

\* C35: the overlay reflects the latest hover: when the pointer has left
\* and every references response has arrived the highlighted set is empty,
\* and no response to an earlier hover replaces the highlights of a later
\* one
OverlayReflectsLatestHover ==
    /\ []((pointer = 0 /\ hoverRequests = {}) => highlightedFiles = {})
    /\ [][~ (overlayOf # 0 /\ overlayOf' # 0 /\ overlayOf' < overlayOf)]_allVars

----------------------------------------------------------------------------
(* The lines of a code snippet *)

\* the numbers of a snippet are consecutive, start at 1 or above and end at
\* the file length or below
WellNumbered(lines) ==
    /\ \A k \in DOMAIN lines : lines[k] >= 1 /\ lines[k] <= FileLines
    /\ \A k \in DOMAIN lines : k > 1 => lines[k] = lines[k - 1] + 1

LineAmong(line, lines) == \E k \in DOMAIN lines : lines[k] = line

\* this step answers call i with status ok
AnsweredOk(i) ==
    /\ codeRequests[i].pc # "done"
    /\ codeRequests'[i].pc = "done"
    /\ codeRequests'[i].answer.status = "ok"

\* the symbol list findSymbolByLine is given in the step that answers
\* call i (none when no end line is needed or the lookup threw)
SymbolsUsedBy(i) ==
    LET args == codeRequests[i].args
    IN IF codeRequests[i].pc = "readFile"
       THEN IF ~ usableEndLine(args) /\ cacheHas(symbolsCache, args.filepath)
            THEN <<cacheGet(symbolsCache, args.filepath)>>
            ELSE <<>>
       ELSE IF codeRequests[i].pc = "symbols"
               /\ requests[codeRequests[i].symId].response.status = "return"
       THEN <<requests[codeRequests[i].symId].response.body>>
       ELSE <<>>

\* the range of call i comes from a symbol found by its name, not at the
\* requested line, and the answer holds the lines of that symbol
AnsweredByName(i) ==
    /\ SymbolsUsedBy(i) # <<>>
    /\ LET args == codeRequests[i].args
           symbol == findSymbolByLine(SymbolsUsedBy(i)[1], args.line, args.name)
       IN /\ symbol # <<>>
          /\ symbol[1].line # args.line
          /\ nameMatches(symbol[1], args.name)
          /\ symbol[1].end_line > symbol[1].line
          /\ codeRequests'[i].answer.lines =
                 snippet(symbol[1].line - 1, Min(FileLines, symbol[1].end_line))

\* C36 as stated: a code-snippet request for a line of the file is
\* answered with lines numbered consecutively from 1-indexed positions, none
\* beyond the file length, the requested line among them, whichever branch
\* computed the range
SnippetHoldsRequestedLine ==
    [][\A i \in DOMAIN codeRequests :
          (AnsweredOk(i) /\ codeRequests[i].args.line \in 1..FileLines)
              => /\ WellNumbered(codeRequests'[i].answer.lines)
                 /\ LineAmong(codeRequests[i].args.line, codeRequests'[i].answer.lines)]_allVars

\* C36 amended: the lines are numbered consecutively, 1-indexed and within
\* the file on every branch; the requested line is among them on the
\* branches of the given end line, the symbol at the line and the context
\* fallback, while a symbol found by name gives the lines of that symbol
SnippetWellNumbered ==
    [][\A i \in DOMAIN codeRequests :
          (AnsweredOk(i) /\ codeRequests[i].args.line \in 1..FileLines)
              => /\ WellNumbered(codeRequests'[i].answer.lines)
                 /\ \/ LineAmong(codeRequests[i].args.line, codeRequests'[i].answer.lines)
                    \/ AnsweredByName(i)]_allVars

\* a request for line 2 was answered with the lines 4..10 of the symbol
\* found by name, another with lines that hold its line
SnippetWellNumberedWitness ==
    /\ \E i \in DOMAIN codeRequests :
        /\ codeRequests[i].pc = "done"
        /\ codeRequests[i].args.line = 2
        /\ codeRequests[i].answer = [status |-> "ok", lines |-> <<4, 5, 6, 7, 8, 9, 10>>]
    /\ \E i \in DOMAIN codeRequests :
        /\ codeRequests[i].pc = "done"
        /\ codeRequests[i].answer.status = "ok"
        /\ LineAmong(codeRequests[i].args.line, codeRequests[i].answer.lines)

----------------------------------------------------------------------------
(* The size estimate of the merges against estimateNodeSize *)

\* the estimate the merges of useGraphInteractions make of a node:
\* estimateNodeWidth(node), estimateNodeHeight(node.data?.symbols)
hookEstimate(node) ==
    [width |-> estimateNodeWidth(node), height |-> estimateNodeHeight(node.data.symbols)]

\* C37: for every node, of file kind or of symbol kind, the estimate the
\* merges use (estimateNodeWidth, estimateNodeHeight of the interaction
\* hooks) is the width and height estimateNodeSize gives
HookEstimateIsNodeSize ==
    estArgs # <<>> => hookEstimate(estArgs[1]) = estResult[1]

----------------------------------------------------------------------------
(* getGridLayout as a function *)

DataLongName ==
    [filename |-> "a_filename_longer_than_twenty.lua", symbols |-> <<>>, label |-> "",
     isExpanded |-> FALSE]

\* the nodes getGridLayout is given: file nodes of the widths 628 (a long
\* symbol name), 580 (the floor, with and without symbols) and 684 (a long
\* filename), and a symbol node
GridNodes ==
    {[id |-> "n", type |-> "file", data |-> d, position |-> [x |-> 0, y |-> 0]] :
        d \in {DataFile, DataEmptyFile, DataOneSym, DataLongName}}
    \cup {[id |-> "n", type |-> "symbol", data |-> DataSymbol, position |-> [x |-> 0, y |-> 0]]}

GridNodeLists == UNION {[1..n -> GridNodes] : n \in 0..MaxNodes}

\* a call getGridLayout(ns)
Grid(ns) ==
    /\ gridArgs' = <<ns>>
    /\ gridResult' = <<getGridLayout(ns)>>
    /\ UNCHANGED notGrid

NextGrid == \E ns \in GridNodeLists : Grid(ns)

SpecGrid == Init /\ [][NextGrid]_allVars

\* the horizontal extents [x, x + estimated width] of two placed nodes
\* have no point in common
ExtentsApart(a, b) ==
    \/ a.position.x + estimateNodeSize(a).width < b.position.x
    \/ b.position.x + estimateNodeSize(b).width < a.position.x

\* C38: in the no-edge grid layout the horizontal extents of any two
\* distinct file nodes do not overlap, whatever the file nodes hold
GridColumnsApart ==
    gridResult # <<>> =>
        \A i, j \in DOMAIN gridResult[1] :
            (/\ i # j
             /\ gridResult[1][i].type = "file"
             /\ gridResult[1][j].type = "file")
                => ExtentsApart(gridResult[1][i], gridResult[1][j])

\* three file nodes were laid out, the widest of them in the middle
GridColumnsApartWitness ==
    /\ gridArgs # <<>>
    /\ Len(gridResult[1]) = 3
    /\ \A i \in 1..3 : gridResult[1][i].type = "file"
    /\ estimateNodeSize(gridResult[1][2]).width > estimateNodeSize(gridResult[1][1]).width
    /\ estimateNodeSize(gridResult[1][2]).width > estimateNodeSize(gridResult[1][3]).width
    /\ gridResult[1][3].position.x = 2 * (684 + gridGap)

====
